---- MODULE Spec2Model ----
(***************************************************************************)
(* Model of the two browser-driven OIDC tests of k8s/scripts/tests:        *)
(*   test-oidc-browser.py      test_oidc_flow()      (flow = "oidc")       *)
(*   test-ssh-oidc-browser.py  test_oidc_ssh_flow()  (flow = "ssh")        *)
(* One action per step of the functions; the browser, the storage, the     *)
(* registry file and the external commands are the environment, whose      *)
(* answers are drawn from small sets.                                      *)
(***************************************************************************)
EXTENDS Integers, Sequences, FiniteSets, TLC

(***************************************************************************)
(* Bounds of the model.                                                    *)
(***************************************************************************)
\* A URL or a page text is modelled as the set of the fragments it is made
\* of; at most MaxFrags of them occur in one string.
MaxFrags == 2

(***************************************************************************)
(* Strings that are searched for markers.  A string is the set of its      *)
(* fragments; `x in s` is true when some fragment holds x as a substring.  *)
(***************************************************************************)
UrlFrags ==
    {"error=access_denied", "login_error=1", "authentication-error", "Error",
     "scopes", "authenticate", "targets", "sessions"}

PopupFrags == {"keycloak", "Keycloak", "realms", "Realms", "about:blank"}

ContentFrags == {"pending", "Sign Out", "sign out", "logout"}

Strings(frags) == {s \in SUBSET frags : Cardinality(s) <= MaxFrags}

\* str.lower() of one fragment.
LowerFrag(f) ==
    CASE f = "Error" -> "error"
      [] f = "Keycloak" -> "keycloak"
      [] f = "Realms" -> "realms"
      [] f = "Sign Out" -> "sign out"
      [] OTHER -> f

\* str.lower()
Lower(s) == {LowerFrag(f) : f \in s}

\* The markers the tests look for that are proper substrings of a fragment
\* (case-sensitive, as Python's `in` is).
SubMarkers(f) ==
    CASE f = "error=access_denied" -> {"error", "error="}
      [] f = "login_error=1" -> {"error", "error="}
      [] f = "authentication-error" -> {"error"}
      [] OTHER -> {}

\* Python's `marker in s`.
Contains(marker, s) == \E f \in s : marker = f \/ marker \in SubMarkers(f)

\* urllib.parse.parse_qs(urlparse(url).query): the values of the query
\* parameter named `error`, empty when the query has no such parameter
\* (login_error=1 is another parameter; a path segment is no parameter).
ErrorParams(url) == IF "error=access_denied" \in url THEN <<"access_denied">> ELSE << >>

(***************************************************************************)
(* Python / JSON values, tagged by their type.                             *)
(***************************************************************************)
None == [t |-> "null"]
JStr(s) == [t |-> "str", s |-> s]
JNum(n) == [t |-> "num", n |-> n]
JMap(f) == [t |-> "map", m |-> f]
JList(q) == [t |-> "list", l |-> q]
EmptyMap == JMap(<< >>)

\* bool(v)
Truthy(v) ==
    CASE v.t = "null" -> FALSE
      [] v.t = "str" -> v.s /= ""
      [] v.t = "num" -> v.n /= 0
      [] v.t = "map" -> DOMAIN v.m /= {}
      [] v.t = "list" -> Len(v.l) > 0

\* The outcome of an expression that raised instead of yielding a value.
Raised == [t |-> "raised"]

\* d.get(k, default); AttributeError on anything that is no dict.
PyGet(d, k, default) ==
    IF d.t = "raised" THEN Raised
    ELSE IF d.t /= "map" THEN Raised
    ELSE IF k \in DOMAIN d.m THEN d.m[k] ELSE default

\* `k in v`, as a value: a key test on a dict, a substring test on a str (no
\* string of the model holds a key name as a proper substring), an element
\* test on a list, TypeError on None and on numbers.
PyIn(k, v) ==
    CASE v.t = "map" -> IF k \in DOMAIN v.m THEN "yes" ELSE "no"
      [] v.t = "str" -> IF v.s = k THEN "yes" ELSE "no"
      [] v.t = "list" -> IF \E i \in 1..Len(v.l) : v.l[i] = JStr(k) THEN "yes" ELSE "no"
      [] OTHER -> "raise"

\* `a or b`
PyOr(a, b) == IF a.t = "raised" THEN Raised ELSE IF Truthy(a) THEN a ELSE b

(***************************************************************************)
(* Browser storage and token extraction (test-ssh-oidc-browser.py 219-239) *)
(***************************************************************************)
\* What a storage location holds: nothing (getItem gives null), a text that
\* is no JSON document, or the JSON text of a document.
NoItem == [kind |-> "absent"]
TextRaw(s) == [kind |-> "text", text |-> s]
TextJson(doc) == [kind |-> "json", doc |-> doc]

\* JavaScript truthiness of a storage value, and Python's of the str that
\* page.evaluate hands back: a non-empty string.
NonEmptyText(v) == v.kind = "json" \/ (v.kind = "text" /\ v.text /= "")

\* localStorage.getItem('ember_simple_auth-session') ||
\* localStorage.getItem('boundary-token') || document.cookie
EvaluateToken(st) ==
    IF NonEmptyText(st.session) THEN st.session
    ELSE IF NonEmptyText(st.boundary) THEN st.boundary
    ELSE st.cookie

\* json.loads(text); JSONDecodeError on a text that is no JSON document.
JsonLoads(v) == IF v.kind = "json" THEN v.doc ELSE Raised

\* session_data.get('authenticated', {}).get('attributes', {}).get('token')
TokenAtPath(session_data) ==
    PyGet(PyGet(PyGet(session_data, "authenticated", EmptyMap),
                "attributes", EmptyMap),
          "token", None)

\* Variant of ExtractAuthToken without the try/except of lines 229 and 238:
\* what json.loads or a .get raises leaves the block.
ExtractAuthTokenUnguarded(token) ==
    IF ~NonEmptyText(token) THEN None
    ELSE TokenAtPath(JsonLoads(token))

\* Variant of ExtractAuthToken whose except clause takes the stored text
\* itself as the token when it is no JSON document.
ExtractAuthTokenRawFallback(token) ==
    IF ~NonEmptyText(token) THEN None
    ELSE LET v == TokenAtPath(JsonLoads(token))
         IN  IF v.t /= "raised" THEN v
             ELSE IF token.kind = "text" THEN JStr(token.text)
             ELSE None

\* Lines 229-239: the value auth_token has after the block.  The assignment
\* happens only when the whole chain evaluated; the bare except swallows
\* whatever was raised (also the TypeError of auth_token[:20] on a token
\* that is no string, which comes after the assignment).
ExtractAuthToken(token) ==
    IF ~NonEmptyText(token) THEN None
    ELSE LET v == TokenAtPath(JsonLoads(token))
         IN  IF v.t = "raised" THEN None ELSE v

\* A token of 26 characters; "tok_A" has 5.
LongToken == "at_9f3KxV7mQ2pLs8TzR4wYhN6"

\* The characters of a token; a text that is never a token is one piece.
Chars(s) ==
    CASE s = "tok_A" -> <<"t", "o", "k", "_", "A">>
      [] s = LongToken ->
            <<"a", "t", "_", "9", "f", "3", "K", "x", "V", "7", "m", "Q", "2", "p", "L", "s", "8", "T", "z", "R", "4", "w", "Y", "h", "N", "6">>
      [] OTHER -> <<s>>

\* Line 236 prints auth_token[:20].
TokenShown == 20

\* auth_token[:20]
TokenPrefix(s) ==
    SubSeq(Chars(s), 1, IF Len(Chars(s)) < TokenShown THEN Len(Chars(s)) ELSE TokenShown)

\* What line 236 prints of the token: nothing for a falsy token, nothing
\* for a token that is no string (the slice raises into line 238).
PrintedToken(v) == IF v.t = "str" /\ v.s /= "" THEN TokenPrefix(v.s) ELSE << >>

\* The documents a storage location may hold.
TokenValues == {JStr("tok_A"), JStr(""), None, JNum(7)}

AttributeDocs == {None, EmptyMap} \cup {JMap("token" :> v) : v \in TokenValues}

AuthenticatedDocs ==
    {None, JStr("x"), EmptyMap} \cup {JMap("attributes" :> a) : a \in AttributeDocs}

SessionDocs ==
    {None, JNum(0), JStr("s"), JList(<< >>), EmptyMap}
        \cup {JMap("authenticated" :> a) : a \in AuthenticatedDocs}

Storages ==
    [session : {NoItem, TextRaw(""), TextRaw("raw")} \cup {TextJson(d) : d \in SessionDocs},
     boundary : {NoItem, TextRaw("at_raw"),
                 TextJson(JMap("authenticated" :>
                     JMap("attributes" :> JMap("token" :> JStr(LongToken)))))},
     cookie : {TextRaw(""), TextRaw("k=v")}]

(***************************************************************************)
(* The brokered secret (test-ssh-oidc-browser.py 278-298)                  *)
(***************************************************************************)
SSH_USER == JStr("node")

\* Variant of Canonicalize without the `or secret.get('decoded', {})` of
\* line 285: a decoded envelope is read through its data entry only.
CanonicalizeDecodedDataOnly(secret) ==
    LET hasDecoded == PyIn("decoded", secret)
        hasData == PyIn("data", secret)
        inner == PyGet(secret, "data", EmptyMap)
    IN  IF hasDecoded = "raise" THEN Raised
        ELSE IF hasDecoded = "yes"
        THEN PyGet(PyGet(secret, "decoded", EmptyMap), "data", EmptyMap)
        ELSE IF hasData = "yes" /\ inner.t = "raised" THEN Raised
        ELSE IF hasData = "yes" /\ PyIn("data", inner) = "raise" THEN Raised
        ELSE IF hasData = "yes" /\ PyIn("data", inner) = "yes"
        THEN PyGet(inner, "data", EmptyMap)
        ELSE IF hasData = "yes" THEN inner
        ELSE secret

\* Lines 283-290: which map the fields are read from.
Canonicalize(secret) ==
    LET hasDecoded == PyIn("decoded", secret)
        hasData == PyIn("data", secret)
        inner == PyGet(secret, "data", EmptyMap)
    IN  IF hasDecoded = "raise" THEN Raised
        ELSE IF hasDecoded = "yes"
        THEN PyOr(PyGet(PyGet(secret, "decoded", EmptyMap), "data", EmptyMap),
                  PyGet(secret, "decoded", EmptyMap))
        ELSE IF hasData = "yes" /\ inner.t = "raised" THEN Raised
        ELSE IF hasData = "yes" /\ PyIn("data", inner) = "raise" THEN Raised
        ELSE IF hasData = "yes" /\ PyIn("data", inner) = "yes"
        THEN PyGet(inner, "data", EmptyMap)
        ELSE IF hasData = "yes" THEN inner
        ELSE secret

\* Lines 292-298: the diagnostics print secret.keys(), then the three
\* fields are read with their defaults.  Raised when any of it raises.
ReadFields(secret) ==
    LET secret_data == Canonicalize(secret)
    IN  IF secret.t /= "map" \/ secret_data.t /= "map"
        THEN Raised
        ELSE IF "decoded" \in DOMAIN secret.m /\ secret.m["decoded"].t /= "map"
        THEN Raised
        ELSE [t |-> "fields",
              private_key |-> PyGet(secret_data, "private_key", JStr("")),
              certificate |-> PyGet(secret_data, "certificate", JStr("")),
              username |-> PyGet(secret_data, "username", SSH_USER)]

(***************************************************************************)
(* State                                                                   *)
(***************************************************************************)
VARIABLES
    flow,           \* which test function runs: "oidc" or "ssh"
    pc,             \* the statement the function is at
    phases,         \* the steps that have run so far (history)
    verdict,        \* "none" while running; "True" / "False" returned; "raised"
    browserOpen,    \* the browser handle is open
    shots,          \* the screenshots written so far
    popup_url,      \* popup.url
    final_url,      \* final_url
    page_content,   \* page_content (already lower-cased)
    authState,      \* how the post-callback page was classified (what was printed)
    reported,       \* what the authentication-failure line reported
    rewaits,        \* how often the pending re-wait was done
    ssh_target_id,  \* ssh_target_id
    storage,        \* what the page's storage held when step 3.1 evaluated it
    token,          \* token
    auth_token,     \* auth_token
    printed_token,  \* the characters of the token that line 236 printed
    creds_file,     \* boundary-credentials.txt as get_target_ids() found it
    targets,        \* targets (get_target_ids())
    environ,        \* os.environ['BOUNDARY_TOKEN']
    cmds,           \* the external commands started so far, in order
    secret,         \* secret
    fields,         \* private_key, certificate, username as read from secret_data
    files,          \* the files of the temporary directory
    broker,         \* how the authorize-session call of step 3.3 ended
    result,         \* result: what subprocess.run gave for the last probe
    probe,          \* how the probe with the brokered key ended
    org_id,         \* org_id
    project_id,     \* project_id
    direct,         \* how the probe of step 3.4 (boundary connect ssh) ended
    exit_code,      \* the exit status of the process; -1 while it runs
    timeout_pending \* history: a timeout with no screenshot call after it

browserVars == <<popup_url, final_url, page_content>>
authVars == <<authState, reported, rewaits>>
tokenVars == <<storage, token, auth_token, printed_token>>
brokerVars == <<environ, cmds, secret, fields, files, broker, result, probe>>
lookupVars == <<org_id, project_id, direct>>
sshVars == <<ssh_target_id, tokenVars, creds_file, targets, brokerVars, lookupVars>>
vars == <<flow, pc, phases, verdict, exit_code, timeout_pending, browserOpen, shots, browserVars, authVars, sshVars>>

NoReport == [kind |-> "none"]
BareReport == [kind |-> "bare"]
CodeReport(c) == [kind |-> "code", code |-> c]
UrlReport(u) == [kind |-> "url", url |-> u]

NoFields == [t |-> "unread"]
NoResult == [kind |-> "none"]
CredsFile(state, lines) == [state |-> state, lines |-> lines]
FileOf(content, mode) == [kind |-> "file", content |-> content, mode |-> mode]
NoFiles == [dir |-> FALSE, key |-> NoItem, cert |-> NoItem]
NoStorage == [session |-> NoItem, boundary |-> NoItem, cookie |-> NoItem]

Init ==
    /\ flow \in {"oidc", "ssh"}
    /\ pc = "navigate"
    /\ phases = {}
    /\ verdict = "none"
    /\ browserOpen = TRUE
    /\ shots = {}
    /\ popup_url = {}
    /\ final_url = {}
    /\ page_content = {}
    /\ authState = "unknown"
    /\ reported = NoReport
    /\ rewaits = 0
    /\ ssh_target_id = None
    /\ storage = NoStorage
    /\ token = NoItem
    /\ auth_token = None
    /\ printed_token = << >>
    /\ creds_file = CredsFile("unread", << >>)
    /\ targets = EmptyMap
    /\ environ = None
    /\ cmds = << >>
    /\ secret = None
    /\ fields = NoFields
    /\ files = NoFiles
    /\ broker = "none"
    /\ result = NoResult
    /\ probe = "none"
    /\ org_id = None
    /\ project_id = None
    /\ direct = "none"
    /\ exit_code = -1
    /\ timeout_pending = FALSE

(***************************************************************************)
(* Control flow shared by the steps                                        *)
(***************************************************************************)
\* The name of a screenshot file of the running test.
Shot(name) == <<flow, name>>

\* A Playwright call raised: PlaywrightTimeout ("timeout") or another
\* exception ("error"); control goes to the matching except clause.
Throw(kind) == pc' = (IF kind = "timeout" THEN "except_timeout" ELSE "except_error")

\* return value: the finally clause runs next.
\* Variant: a return that leaves the function without its finally clause.
ReturnSkippingFinally(value) == verdict' = value /\ pc' = "done"

Return(value) == verdict' = value /\ pc' = "finally"

\* History: a wait or a command has timed out and page.screenshot has not
\* been called since.  Every page.screenshot call of the code clears it, the
\* one that raises into a handler aside.
TrackTimeout(timed_out) ==
    timeout_pending' = IF timed_out THEN TRUE
                       ELSE IF shots' /= shots THEN FALSE ELSE timeout_pending

(***************************************************************************)
(* Steps 1-7 of both tests: up to the submitted login form                 *)
(***************************************************************************)
\* page.goto(BOUNDARY_URL, wait_until='networkidle', timeout=30000)
Navigate ==
    /\ pc = "navigate"
    /\ \/ pc' = "scope"
       \/ \E kind \in {"timeout", "error"} : Throw(kind)
    /\ phases' = phases \cup {"navigate"}
    /\ UNCHANGED <<flow, exit_code, verdict, browserOpen, shots, browserVars, authVars, sshVars>>
    /\ TrackTimeout(pc' = "except_timeout")

\* Scope selection: optional, skipped when the dropdown is not visible.
SelectScope ==
    /\ pc = "scope"
    /\ \/ \E dropdown \in BOOLEAN, option \in BOOLEAN : pc' = "method"
       \/ Throw("timeout")
    /\ phases' = phases \cup {"scope"}
    /\ UNCHANGED <<flow, exit_code, verdict, browserOpen, shots, browserVars, authVars, sshVars>>
    /\ TrackTimeout(pc' = "except_timeout")

\* Auth-method selection (optional), then the "ready" screenshot.
SelectAuthMethod ==
    /\ pc = "method"
    /\ \/ /\ \E keycloak_tab \in BOOLEAN : pc' = "signin"
          /\ shots' = shots \cup {Shot("ready")}
       \/ Throw("timeout") /\ UNCHANGED shots
    /\ phases' = phases \cup {"method"}
    /\ UNCHANGED <<flow, exit_code, verdict, browserOpen, browserVars, authVars, sshVars>>
    /\ TrackTimeout(pc' = "except_timeout")

\* with context.expect_page() as popup_info: sign_in_button.click()
SignIn ==
    /\ pc = "signin"
    /\ \/ pc' = "popup"
       \/ Throw("timeout")
    /\ phases' = phases \cup {"signin"}
    /\ UNCHANGED <<flow, exit_code, verdict, browserOpen, shots, browserVars, authVars, sshVars>>
    /\ TrackTimeout(pc' = "except_timeout")

\* popup.wait_for_load_state('networkidle', timeout=15000); popup.url is read.
PopupLoad ==
    /\ pc = "popup"
    /\ \/ /\ \E u \in Strings(PopupFrags) : popup_url' = u
          /\ pc' = "inspect"
          /\ shots' = IF flow = "oidc" THEN shots \cup {Shot("popup")} ELSE shots
       \/ Throw("timeout") /\ UNCHANGED <<popup_url, shots>>
    /\ phases' = phases \cup {"popup"}
    /\ UNCHANGED <<flow, exit_code, verdict, browserOpen, final_url, page_content, authVars, sshVars>>
    /\ TrackTimeout(pc' = "except_timeout")

\* 'keycloak' in popup.url.lower() or 'realms' in popup.url
IsLoginPage(url) == Contains("keycloak", Lower(url)) \/ Contains("realms", url)

\* The pop-up is the identity provider's login page: on to the form.
InspectRecognized ==
    /\ pc = "inspect"
    /\ IsLoginPage(popup_url)
    /\ pc' = "credentials"
    /\ phases' = phases \cup {"inspect"}
    /\ UNCHANGED <<flow, exit_code, timeout_pending, verdict, browserOpen, shots, browserVars, authVars, sshVars>>

\* test_oidc_flow, else branch of line 97: wrong pop-up, return False.
InspectWrongOidc ==
    /\ pc = "inspect"
    /\ flow = "oidc"
    /\ ~IsLoginPage(popup_url)
    /\ authState' = "wrong_popup"
    /\ \/ shots' = shots \cup {Shot("wrong-popup")} /\ Return("False")
       \/ Throw("timeout") /\ UNCHANGED <<shots, verdict>>
    /\ phases' = phases \cup {"inspect"}
    /\ UNCHANGED <<flow, exit_code, browserOpen, browserVars, reported, rewaits, sshVars>>
    /\ TrackTimeout(pc' = "except_timeout")

\* test_oidc_ssh_flow: the if of line 119 has no else; Phase 2 comes next.
InspectWrongSsh ==
    /\ pc = "inspect"
    /\ flow = "ssh"
    /\ ~IsLoginPage(popup_url)
    /\ pc' = "project"
    /\ phases' = phases \cup {"inspect"}
    /\ UNCHANGED <<flow, exit_code, timeout_pending, verdict, browserOpen, shots, browserVars, authVars, sshVars>>

\* wait_for_selector, fill user and password, screenshot, click submit; the
\* wait on the pop-up after the click swallows what it raises.
Credentials ==
    /\ pc = "credentials"
    /\ \/ /\ pc' = "callback"
          /\ shots' = shots \cup {Shot("login")}
          /\ \E popup_wait_timed_out \in BOOLEAN : timeout_pending' = popup_wait_timed_out
       \/ Throw("timeout") /\ UNCHANGED shots /\ timeout_pending' = TRUE
    /\ phases' = phases \cup {"credentials"}
    /\ UNCHANGED <<flow, exit_code, verdict, browserOpen, browserVars, authVars, sshVars>>

\* page.wait_for_timeout(3000); page.wait_for_load_state('networkidle',
\* timeout=15000); final_url = page.url; page_content = page.content().lower()
Callback ==
    /\ pc = "callback"
    /\ \/ /\ \E u \in Strings(UrlFrags) : final_url' = u
          /\ \E c \in Strings(ContentFrags) : page_content' = Lower(c)
          /\ shots' = shots \cup {Shot("callback")}
          /\ pc' = "classify"
       \/ Throw("timeout") /\ UNCHANGED <<final_url, page_content, shots>>
    /\ phases' = phases \cup {"callback"}
    /\ UNCHANGED <<flow, exit_code, verdict, browserOpen, popup_url, authVars, sshVars>>
    /\ TrackTimeout(pc' = "except_timeout")

(***************************************************************************)
(* test_oidc_flow: classification of the post-callback page (132-186)      *)
(***************************************************************************)
\* 'error' in final_url.lower() or 'authentication-error' in final_url
OidcErrorMarker(url) ==
    Contains("error", Lower(url)) \/ Contains("authentication-error", url)

\* 'scopes' in final_url and 'authenticate' not in final_url
ScopesMarker(url) == Contains("scopes", url) /\ ~Contains("authenticate", url)

\* Lines 142-147: the error code printed, if any.
OidcErrorReport(url) ==
    IF Contains("error=", url) /\ Len(ErrorParams(url)) > 0
    THEN CodeReport(ErrorParams(url)[1])
    ELSE BareReport

\* Lines 139-149: an error marker in the URL.
OidcClassifyError ==
    /\ pc = "classify" /\ flow = "oidc"
    /\ OidcErrorMarker(final_url)
    /\ authState' = "failed"
    /\ reported' = OidcErrorReport(final_url)
    /\ \/ shots' = shots \cup {Shot("error")} /\ Return("False")
       \/ Throw("timeout") /\ UNCHANGED <<shots, verdict>>
    /\ phases' = phases \cup {"classify"}
    /\ UNCHANGED <<flow, exit_code, browserOpen, browserVars, rewaits, sshVars>>
    /\ TrackTimeout(pc' = "except_timeout")

\* Line 151: the page still says pending.
OidcClassifyPending ==
    /\ pc = "classify" /\ flow = "oidc"
    /\ ~OidcErrorMarker(final_url)
    /\ Contains("pending", page_content)
    /\ authState' = "pending"
    /\ pc' = "rewait"
    /\ phases' = phases \cup {"classify"}
    /\ UNCHANGED <<flow, exit_code, timeout_pending, verdict, browserOpen, shots, browserVars, reported, rewaits, sshVars>>

\* Lines 154-156: page.wait_for_timeout(5000); wait_for_load_state; the URL
\* is read again.
OidcRewait ==
    /\ pc = "rewait"
    /\ \/ /\ \E u \in Strings(UrlFrags) : final_url' = u
          /\ rewaits' = rewaits + 1
          /\ pc' = "reclassify"
       \/ Throw("timeout") /\ UNCHANGED <<final_url, rewaits>>
    /\ phases' = phases \cup {"rewait"}
    /\ UNCHANGED <<flow, exit_code, verdict, browserOpen, shots, popup_url, page_content,
                   authState, reported, sshVars>>
    /\ TrackTimeout(pc' = "except_timeout")

\* Variant: a page that is still pending is waited for again.
OidcReclassifyLoops ==
    /\ pc = "reclassify"
    /\ authState' = IF ScopesMarker(final_url) THEN "authenticated" ELSE "pending"
    /\ \/ /\ ScopesMarker(final_url)
          /\ shots' = shots \cup {Shot("success")}
          /\ Return("True")
       \/ /\ ~ScopesMarker(final_url)
          /\ pc' = "rewait"
          /\ UNCHANGED <<shots, verdict>>
       \/ Throw("timeout") /\ UNCHANGED <<shots, verdict>>
    /\ phases' = phases \cup {"reclassify"}
    /\ UNCHANGED <<flow, exit_code, browserOpen, browserVars, reported, rewaits, sshVars>>
    /\ TrackTimeout(pc' = "except_timeout")

\* Lines 159-165: the one re-classification.
OidcReclassify ==
    /\ pc = "reclassify"
    /\ authState' = IF ScopesMarker(final_url) THEN "authenticated" ELSE "unclear"
    /\ \/ /\ shots' = shots \cup
                {Shot(IF ScopesMarker(final_url) THEN "success" ELSE "still-pending")}
          /\ Return(IF ScopesMarker(final_url) THEN "True" ELSE "False")
       \/ Throw("timeout") /\ UNCHANGED <<shots, verdict>>
    /\ phases' = phases \cup {"reclassify"}
    /\ UNCHANGED <<flow, exit_code, browserOpen, browserVars, reported, rewaits, sshVars>>
    /\ TrackTimeout(pc' = "except_timeout")

\* Lines 167-176: a success marker in the URL.
OidcClassifySuccess ==
    /\ pc = "classify" /\ flow = "oidc"
    /\ ~OidcErrorMarker(final_url)
    /\ ~Contains("pending", page_content)
    /\ \/ ScopesMarker(final_url)
       \/ Contains("targets", final_url)
       \/ Contains("sessions", final_url)
    /\ authState' = "authenticated"
    /\ \/ shots' = shots \cup {Shot("success")} /\ Return("True")
       \/ Throw("timeout") /\ UNCHANGED <<shots, verdict>>
    /\ phases' = phases \cup {"classify"}
    /\ UNCHANGED <<flow, exit_code, browserOpen, browserVars, reported, rewaits, sshVars>>
    /\ TrackTimeout(pc' = "except_timeout")

\* 'sign out' in page_content or 'logout' in page_content
SignOutMarker(content) == Contains("sign out", content) \/ Contains("logout", content)

\* Lines 178-186: no marker in the URL, the page text decides.
OidcClassifyPage ==
    /\ pc = "classify" /\ flow = "oidc"
    /\ ~OidcErrorMarker(final_url)
    /\ ~Contains("pending", page_content)
    /\ ~ScopesMarker(final_url)
    /\ ~Contains("targets", final_url)
    /\ ~Contains("sessions", final_url)
    /\ authState' = IF SignOutMarker(page_content) THEN "authenticated" ELSE "unclear"
    /\ \/ /\ shots' = shots \cup
                {Shot(IF SignOutMarker(page_content) THEN "success" ELSE "unknown")}
          /\ Return(IF SignOutMarker(page_content) THEN "True" ELSE "False")
       \/ Throw("timeout") /\ UNCHANGED <<shots, verdict>>
    /\ phases' = phases \cup {"classify"}
    /\ UNCHANGED <<flow, exit_code, browserOpen, browserVars, reported, rewaits, sshVars>>
    /\ TrackTimeout(pc' = "except_timeout")

(***************************************************************************)
(* except / finally of both tests                                          *)
(***************************************************************************)
\* Variant: the timeout handler returns False without calling
\* page.screenshot.
ExceptTimeoutNoShot ==
    /\ pc = "except_timeout"
    /\ Return("False")
    /\ phases' = phases \cup {"except_timeout"}
    /\ UNCHANGED <<flow, exit_code, timeout_pending, browserOpen, shots, browserVars,
                   authVars, sshVars>>

\* except PlaywrightTimeout: page.screenshot(...); return False.  The
\* screenshot is not guarded: when it raises, the exception leaves the
\* function (after the finally clause).
ExceptTimeout ==
    /\ pc = "except_timeout"
    /\ \/ shots' = shots \cup {Shot("timeout")} /\ Return("False")
       \/ Return("raised") /\ UNCHANGED shots
    /\ phases' = phases \cup {"except_timeout"}
    /\ UNCHANGED <<flow, exit_code, browserOpen, browserVars, authVars, sshVars>>
    /\ timeout_pending' = FALSE

\* except Exception: the screenshot is tried inside try/except: pass.
ExceptError ==
    /\ pc = "except_error"
    /\ \E written \in BOOLEAN :
          shots' = IF written THEN shots \cup {Shot("error-exit")} ELSE shots
    /\ Return("False")
    /\ phases' = phases \cup {"except_error"}
    /\ UNCHANGED <<flow, exit_code, browserOpen, browserVars, authVars, sshVars>>
    /\ timeout_pending' = FALSE

\* finally: browser.close()
Finally ==
    /\ pc = "finally"
    /\ browserOpen' = FALSE
    /\ pc' = "done"
    /\ UNCHANGED <<flow, exit_code, timeout_pending, phases, verdict, shots, browserVars, authVars, sshVars>>

(***************************************************************************)
(* test_oidc_ssh_flow, Phase 1: classification (lines 138-150)             *)
(***************************************************************************)
\* Variant of SshClassifyError that prints the failure and, like the branch
\* of an unrecognised pop-up, goes on with Phase 2 instead of returning.
SshClassifyErrorContinues ==
    /\ pc = "classify" /\ flow = "ssh"
    /\ Contains("error", Lower(final_url))
    /\ authState' = "failed"
    /\ reported' = UrlReport(final_url)
    /\ pc' = "project"
    /\ phases' = phases \cup {"classify"}
    /\ UNCHANGED <<flow, exit_code, timeout_pending, verdict, browserOpen, shots, browserVars, rewaits, sshVars>>

\* Line 143: 'error' in final_url.lower(): the URL is printed, return False.
SshClassifyError ==
    /\ pc = "classify" /\ flow = "ssh"
    /\ Contains("error", Lower(final_url))
    /\ authState' = "failed"
    /\ reported' = UrlReport(final_url)
    /\ Return("False")
    /\ phases' = phases \cup {"classify"}
    /\ UNCHANGED <<flow, exit_code, timeout_pending, browserOpen, shots, browserVars, rewaits, sshVars>>

\* 'scopes' in final_url or 'targets' in final_url or 'sign out' in page_content
SshSuccessMarker(url, content) ==
    Contains("scopes", url) \/ Contains("targets", url) \/ Contains("sign out", content)

\* Lines 147-150: success or "Unclear auth state" is printed and, either
\* way, Phase 2 follows.  final_url, page_content and popup.url are not read
\* again after line 150: the model forgets them here.
SshClassifyContinue ==
    /\ pc = "classify" /\ flow = "ssh"
    /\ ~Contains("error", Lower(final_url))
    /\ authState' = IF SshSuccessMarker(final_url, page_content)
                    THEN "authenticated" ELSE "unclear"
    /\ popup_url' = {} /\ final_url' = {} /\ page_content' = {}
    /\ pc' = "project"
    /\ phases' = phases \cup {"classify"}
    /\ UNCHANGED <<flow, exit_code, timeout_pending, verdict, browserOpen, shots, reported, rewaits, sshVars>>

(***************************************************************************)
(* Phase 2: navigation to the SSH target in the UI (lines 152-210)         *)
(***************************************************************************)
\* Step 2.1: the project link is clicked or the scopes URL is loaded.
Project ==
    /\ pc = "project"
    /\ \/ /\ \E project_link \in BOOLEAN : pc' = "targets_link"
          /\ shots' = shots \cup {Shot("project")}
       \/ Throw("timeout") /\ UNCHANGED shots
    /\ phases' = phases \cup {"navigation"}
    /\ UNCHANGED <<flow, exit_code, verdict, browserOpen, browserVars, authVars, sshVars>>
    /\ TrackTimeout(pc' = "except_timeout")

\* Step 2.2: the Targets link, when visible, is clicked.
TargetsLink ==
    /\ pc = "targets_link"
    /\ \/ /\ \E targets_link \in BOOLEAN : pc' = "ssh_target"
          /\ shots' = shots \cup {Shot("targets")}
       \/ Throw("timeout") /\ UNCHANGED shots
    /\ phases' = phases \cup {"navigation"}
    /\ UNCHANGED <<flow, exit_code, verdict, browserOpen, browserVars, authVars, sshVars>>
    /\ TrackTimeout(pc' = "except_timeout")

\* A page URL as the pieces the parse of line 204 cuts it into.
TargetUrls ==
    {<<"https://boundary", "/targets/", "t_ui">>,
     <<"https://boundary", "/targets/", "t_ui", "/", "hosts">>,
     <<"https://boundary", "/targets/", "t_ui", "?", "page=1">>,
     <<"https://boundary", "/targets/">>,
     <<"https://boundary", "/", "scopes">>}

\* The pieces of q after the last piece equal to sep (all of q without one):
\* q.split(sep)[-1]
RECURSIVE AfterLast(_, _)
AfterLast(q, sep) ==
    IF \E i \in 1..Len(q) : q[i] = sep
    THEN AfterLast(Tail(q), sep)
    ELSE q

\* The pieces of q before the first piece equal to sep: q.split(sep)[0]
RECURSIVE BeforeFirst(_, _)
BeforeFirst(q, sep) ==
    IF q = << >> \/ Head(q) = sep THEN << >>
    ELSE <<Head(q)>> \o BeforeFirst(Tail(q), sep)

\* current_url.split('/targets/')[-1].split('/')[0].split('?')[0]
TargetIdOfUrl(url) ==
    LET rest == BeforeFirst(BeforeFirst(AfterLast(url, "/targets/"), "/"), "?")
    IN  IF rest = << >> THEN JStr("") ELSE JStr(rest[1])

\* Step 2.3: the SSH target, when visible, is opened and its id is taken
\* from the URL when that holds '/targets/'.
SshTargetVisible ==
    /\ pc = "ssh_target"
    /\ \/ /\ \E current_url \in TargetUrls :
                ssh_target_id' =
                    IF \E i \in 1..Len(current_url) : current_url[i] = "/targets/"
                    THEN TargetIdOfUrl(current_url)
                    ELSE ssh_target_id
          /\ shots' = shots \cup {Shot("target-detail")}
          /\ pc' = "extract"
       \/ Throw("timeout") /\ UNCHANGED <<shots, ssh_target_id>>
    /\ phases' = phases \cup {"navigation"}
    /\ UNCHANGED <<flow, exit_code, verdict, browserOpen, browserVars, authVars,
                   tokenVars, creds_file, targets, brokerVars, lookupVars>>
    /\ TrackTimeout(pc' = "except_timeout")

\* Step 2.3, else branch: the target is not in the UI.
SshTargetAbsent ==
    /\ pc = "ssh_target"
    /\ pc' = "extract"
    /\ phases' = phases \cup {"navigation"}
    /\ UNCHANGED <<flow, exit_code, timeout_pending, verdict, browserOpen, shots, browserVars, authVars, sshVars>>

(***************************************************************************)
(* Phase 3, steps 3.1 and 3.2: token and target id (lines 219-250)         *)
(***************************************************************************)
\* Step 3.1: page.evaluate(...) and the parse of lines 229-239.  An
\* exception that left the parse would reach the except clause of line 474,
\* as one raised by page.evaluate does.
ExtractToken ==
    /\ pc = "extract"
    /\ \/ \E st \in Storages :
             /\ storage' = st
             /\ token' = EvaluateToken(st)
             /\ IF ExtractAuthToken(EvaluateToken(st)).t = "raised"
                THEN Throw("error") /\ UNCHANGED <<auth_token, printed_token>>
                ELSE /\ auth_token' = ExtractAuthToken(EvaluateToken(st))
                     /\ printed_token' = PrintedToken(ExtractAuthToken(EvaluateToken(st)))
                     /\ pc' = "registry"
       \/ Throw("error") /\ UNCHANGED <<storage, token, auth_token, printed_token>>
    /\ phases' = phases \cup {"extract"}
    /\ UNCHANGED <<flow, exit_code, verdict, browserOpen, shots, browserVars, authVars,
                   ssh_target_id, creds_file, targets, brokerVars, lookupVars>>
    /\ TrackTimeout(pc' = "except_timeout")

\* A line of boundary-credentials.txt as its pieces: words, ":" and " ".
LineClaudeExtra == <<"claude-ssh", ":", " ", "t_abc123", " ", "extra">>
LineClaude == <<"claude-ssh", ":", " ", "t_abc123">>
LineGemini == <<"gemini-ssh", ":", " ", "t_gem">>
LineGeminiTight == <<"gemini-ssh", ":", "t_gem2">>
LineClaudeBare == <<"claude-ssh", ":">>
LineClaudeNote == <<"claude-ssh", ":", " ", "t_abc123", " ", "note", ":", " ", "x9">>
LineComment == <<"#", " ", "targets">>

\* The registry file: missing, unreadable, or its lines.
CredsFiles ==
    {CredsFile("missing", << >>), CredsFile("unreadable", << >>)} \cup
    {CredsFile("read", lines) : lines \in
        {<< >>,
         <<LineClaudeExtra>>, <<LineClaude>>, <<LineGemini>>, <<LineGeminiTight>>,
         <<LineClaudeBare>>, <<LineClaudeNote>>, <<LineComment>>,
         <<LineClaude, LineGemini>>, <<LineGemini, LineClaudeExtra>>,
         <<LineClaudeBare, LineGemini>>, <<LineGemini, LineClaudeBare>>}}

\* '<name>-ssh:' in line
HasMarker(line, name) ==
    \E i \in 1..(Len(line) - 1) : line[i] = name /\ line[i + 1] = ":"

\* line.split(':')[-1].strip().split(): the words after the last colon.
WordsAfterLastColon(line) == SelectSeq(AfterLast(line, ":"), LAMBDA w : w /= " ")

\* The loop of lines 33-37 over the remaining lines; an IndexError (no word
\* after the last colon) ends it with what was stored so far (line 38).
RECURSIVE ReadTargets(_, _)
ReadTargets(lines, acc) ==
    IF lines = << >> THEN acc
    ELSE LET line == Head(lines)
             name == IF HasMarker(line, "claude-ssh") THEN "claude"
                     ELSE IF HasMarker(line, "gemini-ssh") THEN "gemini"
                     ELSE "none"
             words == WordsAfterLastColon(line)
         IN  IF name = "none" THEN ReadTargets(Tail(lines), acc)
             ELSE IF words = << >> THEN acc
             ELSE ReadTargets(Tail(lines),
                      [k \in DOMAIN acc \cup {name} |->
                          IF k = name THEN JStr(words[1]) ELSE acc[k]])

\* get_target_ids()
get_target_ids(file) ==
    IF file.state /= "read" THEN EmptyMap
    ELSE JMap(ReadTargets(file.lines, << >>))

\* targets.get('gemini') or targets.get('claude') or ssh_target_id
\* Variant: an id found in the UI is kept.
ChooseTargetUiFirst(tg, ui_id) ==
    PyOr(ui_id, PyOr(PyGet(tg, "gemini", None), PyGet(tg, "claude", None)))

ChooseTarget(tg, ui_id) ==
    PyOr(PyGet(tg, "gemini", None), PyOr(PyGet(tg, "claude", None), ui_id))

\* Step 3.2: the registry is read and the target id chosen.  token and the
\* page's storage are not read again after line 239: the model forgets them.
Registry ==
    /\ pc = "registry"
    /\ \E file \in CredsFiles :
          /\ creds_file' = file
          /\ targets' = get_target_ids(file)
          /\ ssh_target_id' = ChooseTarget(get_target_ids(file), ssh_target_id)
    /\ storage' = NoStorage /\ token' = NoItem
    /\ pc' = "authorize"
    /\ phases' = phases \cup {"resolve"}
    /\ UNCHANGED <<flow, exit_code, timeout_pending, verdict, browserOpen, shots, browserVars, authVars,
                   auth_token, printed_token, brokerVars, lookupVars>>

(***************************************************************************)
(* Step 3.3: the authorize-session block (lines 252-373)                   *)
(***************************************************************************)
\* The logical field maps a secret may carry: each field is absent or one
\* of its values (a key and a certificate may be empty).
FieldValues(field) ==
    CASE field = "private_key" -> {JStr("KEY"), JStr("")}
      [] field = "certificate" -> {JStr("CERT"), JStr("")}
      [] field = "username" -> {JStr("alice")}

FieldMaps ==
    {JMap(f) : f \in UNION {{g \in [d -> {JStr("KEY"), JStr("CERT"), JStr("alice"), JStr("")}] :
                                \A k \in d : g[k] \in FieldValues(k)} :
                             d \in SUBSET {"private_key", "certificate", "username"}}}

Shapes == {"decoded.data", "decoded", "data.data", "data", "plain"}

\* The envelope of the given shape around the map M.
Wrap(shape, M) ==
    CASE shape = "decoded.data" -> JMap("decoded" :> JMap("data" :> M))
      [] shape = "decoded" -> JMap("decoded" :> M)
      [] shape = "data.data" -> JMap("data" :> JMap("data" :> M))
      [] shape = "data" -> JMap("data" :> M)
      [] shape = "plain" -> M

KeyMap == JMap(("private_key" :> JStr("KEY")) @@ ("username" :> JStr("alice")))

\* Secrets of none of the five shapes, or of two at once.
OddSecrets ==
    {None, JStr("opaque"), JStr("data"),
     JMap("decoded" :> JStr("b64")),
     JMap("data" :> None),
     JMap(("decoded" :> JMap("username" :> JStr("bob"))) @@ ("data" :> KeyMap)),
     JMap(("decoded" :> KeyMap) @@ ("data" :> JMap("private_key" :> JStr("OTHER")))),
     JMap("decoded" :> JMap(("data" :> EmptyMap) @@ ("private_key" :> JStr("KEY")))),
     JMap("private_key" :> JNum(5)),
     JMap(("private_key" :> JStr("KEY")) @@ ("certificate" :> JNum(5)))}

Secrets == {Wrap(sh, M) : sh \in Shapes, M \in FieldMaps} \cup OddSecrets

\* stdout of `boundary targets authorize-session -format=json`.
AuthItem(credentials) ==
    JMap("item" :> JMap(("credentials" :> credentials) @@ ("session_id" :> JStr("s_1"))))

AuthDocs ==
    {None, EmptyMap, AuthItem(JList(<< >>)), AuthItem(None), AuthItem(JList(<<EmptyMap>>))}
        \cup {AuthItem(JList(<<JMap("secret" :> S)>>)) : S \in Secrets}

\* What subprocess.run gives: TimeoutExpired, or a completed process.
Completed(rc, stdout) == [kind |-> "exit", rc |-> rc, stdout |-> stdout]
TimedOut == [kind |-> "timeout"]

BrokerResponses ==
    {TimedOut, Completed(1, TextRaw("")), Completed(0, TextRaw("not json"))}
        \cup {Completed(0, TextJson(d)) : d \in AuthDocs}

\* credentials[0]; raises on what cannot be indexed.
FirstOf(credentials) ==
    IF credentials.t = "list" /\ Len(credentials.l) > 0 THEN credentials.l[1] ELSE Raised

\* len(credentials) raises TypeError on None and on numbers.
Sized(v) == v.t \in {"list", "map", "str"}

\* Variant of BrokerOutcome without the `if private_key:` of line 300: every
\* secret whose fields could be read counts as credentials.
BrokerOutcomeAnyKey(resp) ==
    IF resp.kind = "timeout" THEN [how |-> "timeout", secret |-> None, fields |-> NoFields]
    ELSE IF resp.rc /= 0 THEN [how |-> "nonzero", secret |-> None, fields |-> NoFields]
    ELSE LET auth_data == JsonLoads(resp.stdout)
             credentials == PyGet(PyGet(auth_data, "item", EmptyMap),
                                  "credentials", JList(<< >>))
             cred == FirstOf(credentials)
             sec == PyGet(cred, "secret", EmptyMap)
         IN  IF credentials.t = "raised" \/ ~Sized(credentials)
             THEN [how |-> "error", secret |-> None, fields |-> NoFields]
             ELSE IF ~Truthy(credentials)
             THEN [how |-> "no_credentials", secret |-> None, fields |-> NoFields]
             ELSE IF sec.t = "raised"
             THEN [how |-> "error", secret |-> None, fields |-> NoFields]
             ELSE IF ReadFields(sec).t = "raised"
             THEN [how |-> "error", secret |-> sec, fields |-> NoFields]
             ELSE [how |-> "credentials", secret |-> sec, fields |-> ReadFields(sec)]

\* Lines 266-298 on a completed process: how the block goes on.
\*   "nonzero"         Authorization failed (line 366)
\*   "error"           an exception reached line 370
\*   "no_credentials"  line 364
\*   "no_private_key"  line 361
\*   "credentials"     line 301, with the fields read
BrokerOutcome(resp) ==
    IF resp.kind = "timeout" THEN [how |-> "timeout", secret |-> None, fields |-> NoFields]
    ELSE IF resp.rc /= 0 THEN [how |-> "nonzero", secret |-> None, fields |-> NoFields]
    ELSE LET auth_data == JsonLoads(resp.stdout)
             credentials == PyGet(PyGet(auth_data, "item", EmptyMap),
                                  "credentials", JList(<< >>))
             cred == FirstOf(credentials)
             sec == PyGet(cred, "secret", EmptyMap)
         IN  IF credentials.t = "raised" \/ ~Sized(credentials)
             THEN [how |-> "error", secret |-> None, fields |-> NoFields]
             ELSE IF ~Truthy(credentials)
             THEN [how |-> "no_credentials", secret |-> None, fields |-> NoFields]
             ELSE IF sec.t = "raised"
             THEN [how |-> "error", secret |-> None, fields |-> NoFields]
             ELSE IF ReadFields(sec).t = "raised"
             THEN [how |-> "error", secret |-> sec, fields |-> NoFields]
             ELSE IF ~Truthy(ReadFields(sec).private_key)
             THEN [how |-> "no_private_key", secret |-> sec, fields |-> ReadFields(sec)]
             ELSE [how |-> "credentials", secret |-> sec, fields |-> ReadFields(sec)]

\* The registry file is not looked at again after step 3.2, and targets is
\* not read after line 246: the model forgets both.
ForgetRegistry == creds_file' = CredsFile("unread", << >>) /\ targets' = EmptyMap

\* Line 253: no token, the block is skipped.
AuthorizeSkip ==
    /\ pc = "authorize"
    /\ ~Truthy(auth_token)
    /\ ForgetRegistry
    /\ pc' = "dynlookup"
    /\ UNCHANGED <<flow, exit_code, timeout_pending, phases, verdict, browserOpen, shots, browserVars, authVars,
                   ssh_target_id, tokenVars, brokerVars, lookupVars>>

\* Variant: the block does not export the token.
AuthorizeEnvUnset ==
    /\ pc = "authorize"
    /\ Truthy(auth_token)
    /\ ForgetRegistry
    /\ IF auth_token.t = "str"
       THEN pc' = "authorize_run"
       ELSE Throw("error")
    /\ phases' = phases \cup {"broker"}
    /\ UNCHANGED <<flow, exit_code, verdict, browserOpen, shots, browserVars, authVars,
                   ssh_target_id, tokenVars, environ,
                   cmds, secret, fields, files, broker, result, probe, lookupVars>>
    /\ TrackTimeout(pc' = "except_timeout")

\* Lines 255-257: os.environ['BOUNDARY_TOKEN'] = auth_token, a TypeError
\* outside the inner try when the token is no str.
AuthorizeEnv ==
    /\ pc = "authorize"
    /\ Truthy(auth_token)
    /\ ForgetRegistry
    /\ IF auth_token.t = "str"
       THEN environ' = auth_token /\ pc' = "authorize_run"
       ELSE Throw("error") /\ UNCHANGED environ
    /\ phases' = phases \cup {"broker"}
    /\ UNCHANGED <<flow, exit_code, verdict, browserOpen, shots, browserVars, authVars,
                   ssh_target_id, tokenVars,
                   cmds, secret, fields, files, broker, result, probe, lookupVars>>
    /\ TrackTimeout(pc' = "except_timeout")

\* Lines 260-264 with ssh_target_id None: subprocess.run raises TypeError on
\* the argument list before any process is started; line 370 catches it.
AuthorizeNoTarget ==
    /\ pc = "authorize_run"
    /\ ssh_target_id.t /= "str"
    /\ broker' = "error"
    /\ pc' = "dynlookup"
    /\ phases' = phases \cup {"broker"}
    /\ UNCHANGED <<flow, exit_code, timeout_pending, verdict, browserOpen, shots, browserVars, authVars,
                   ssh_target_id, tokenVars, creds_file, targets,
                   environ, cmds, secret, fields, files, result, probe, lookupVars>>

\* Variant: an answer that cannot be read is not caught by line 370 and
\* reaches the handler of line 474.
AuthorizeRunUncaught ==
    /\ pc = "authorize_run"
    /\ ssh_target_id.t = "str"
    /\ cmds' = Append(cmds, "authorize-session")
    /\ \E resp \in BrokerResponses :
          /\ timeout_pending' = (timeout_pending \/ resp.kind = "timeout")
          /\ broker' = BrokerOutcome(resp).how
          /\ secret' = BrokerOutcome(resp).secret
          /\ fields' = BrokerOutcome(resp).fields
          /\ pc' = IF BrokerOutcome(resp).how = "credentials" THEN "mktemp"
                   ELSE IF BrokerOutcome(resp).how = "error" THEN "except_error"
                   ELSE "dynlookup"
    /\ phases' = phases \cup {"broker"}
    /\ UNCHANGED <<flow, exit_code, verdict, browserOpen, shots, browserVars, authVars,
                   ssh_target_id, tokenVars, creds_file, targets,
                   environ, files, result, probe, lookupVars>>

\* Lines 260-298 and 360-373: the command is run and its answer read.
AuthorizeRun ==
    /\ pc = "authorize_run"
    /\ ssh_target_id.t = "str"
    /\ cmds' = Append(cmds, "authorize-session")
    /\ \E resp \in BrokerResponses :
          /\ timeout_pending' = (timeout_pending \/ resp.kind = "timeout")
          /\ broker' = BrokerOutcome(resp).how
          /\ secret' = BrokerOutcome(resp).secret
          /\ fields' = BrokerOutcome(resp).fields
          /\ pc' = IF BrokerOutcome(resp).how = "credentials" THEN "mktemp" ELSE "dynlookup"
    /\ phases' = phases \cup {"broker"}
    /\ UNCHANGED <<flow, exit_code, verdict, browserOpen, shots, browserVars, authVars,
                   ssh_target_id, tokenVars, creds_file, targets,
                   environ, files, result, probe, lookupVars>>

(***************************************************************************)
(* Lines 305-318: the key material in the temporary directory              *)
(***************************************************************************)
\* The mode open(path, 'w') gives a new file, by the process umask.
UmaskModes == {"0666", "0644", "0600"}

\* with tempfile.TemporaryDirectory() as temp_dir.  secret is not read after
\* line 298, where the fields were taken from it: the model forgets it.
MkTemp ==
    /\ pc = "mktemp"
    /\ files' = [dir |-> TRUE, key |-> NoItem, cert |-> NoItem]
    /\ secret' = None
    /\ pc' = "write_key"
    /\ phases' = phases \cup {"materialize"}
    /\ UNCHANGED <<flow, exit_code, timeout_pending, verdict, browserOpen, shots, browserVars, authVars,
                   ssh_target_id, tokenVars, creds_file, targets,
                   environ, cmds, fields, broker, result, probe, lookupVars>>

\* Lines 311-312: f.write(private_key) raises TypeError on a key that is no
\* str; the with block removes the directory and line 370 catches it.
WriteKey ==
    /\ pc = "write_key"
    /\ IF fields.private_key.t = "str"
       THEN /\ \E mode \in UmaskModes :
                  files' = [files EXCEPT !.key = FileOf(fields.private_key.s, mode)]
            /\ pc' = "chmod_key"
            /\ UNCHANGED broker
       ELSE /\ files' = NoFiles
            /\ broker' = "error"
            /\ pc' = "dynlookup"
    /\ phases' = phases \cup {"materialize"}
    /\ UNCHANGED <<flow, exit_code, timeout_pending, verdict, browserOpen, shots, browserVars, authVars,
                   ssh_target_id, tokenVars, creds_file, targets,
                   environ, cmds, secret, fields, result, probe, lookupVars>>

\* os.chmod(key_file, 0o600)
ChmodKey ==
    /\ pc = "chmod_key"
    /\ files' = [files EXCEPT !.key.mode = "0600"]
    /\ pc' = "write_cert"
    /\ phases' = phases \cup {"materialize"}
    /\ UNCHANGED <<flow, exit_code, timeout_pending, verdict, browserOpen, shots, browserVars, authVars,
                   ssh_target_id, tokenVars, creds_file, targets,
                   environ, cmds, secret, fields, broker, result, probe, lookupVars>>

\* Lines 315-317: the certificate, when there is one, is written.
WriteCert ==
    /\ pc = "write_cert"
    /\ IF ~Truthy(fields.certificate)
       THEN pc' = "probe" /\ UNCHANGED <<files, broker>>
       ELSE IF fields.certificate.t = "str"
       THEN /\ \E mode \in UmaskModes :
                  files' = [files EXCEPT !.cert = FileOf(fields.certificate.s, mode)]
            /\ pc' = "chmod_cert"
            /\ UNCHANGED broker
       ELSE /\ files' = NoFiles
            /\ broker' = "error"
            /\ pc' = "dynlookup"
    /\ phases' = phases \cup {"materialize"}
    /\ UNCHANGED <<flow, exit_code, timeout_pending, verdict, browserOpen, shots, browserVars, authVars,
                   ssh_target_id, tokenVars, creds_file, targets,
                   environ, cmds, secret, fields, result, probe, lookupVars>>

\* os.chmod(cert_file, 0o644)
ChmodCert ==
    /\ pc = "chmod_cert"
    /\ files' = [files EXCEPT !.cert.mode = "0644"]
    /\ pc' = "probe"
    /\ phases' = phases \cup {"materialize"}
    /\ UNCHANGED <<flow, exit_code, timeout_pending, verdict, browserOpen, shots, browserVars, authVars,
                   ssh_target_id, tokenVars, creds_file, targets,
                   environ, cmds, secret, fields, broker, result, probe, lookupVars>>

(***************************************************************************)
(* Step 3.4 inside the block: the probe with the brokered key (320-359)    *)
(***************************************************************************)
\* A line of output: whether it starts with blanks, and its text.
Line(text) == [indent |-> FALSE, text |-> text]
Indented(text) == [indent |-> TRUE, text |-> text]

StartsWithProxy(text) == text = "Proxy listening information:"
HasColon(text) ==
    text \in {"Proxy listening information:", "Address: 127.0.0.1", "sandbox: ready"}

\* 'sandbox' in text.lower()
HasSandbox(text) == text \in {"claude-sandbox-0", "Agent-Sandbox", "sandbox: ready"}

\* 'SSH_OIDC_SUCCESS' in text
HasSentinel(text) == text = "SSH_OIDC_SUCCESS"

\* A line made of blanks only, or of nothing.
IsBlank(l) == l.text = ""

RECURSIVE DropBlankHead(_)
DropBlankHead(q) ==
    IF q /= << >> /\ IsBlank(Head(q)) THEN DropBlankHead(Tail(q)) ELSE q

RECURSIVE DropBlankTail(_)
DropBlankTail(q) ==
    IF q /= << >> /\ IsBlank(q[Len(q)])
    THEN DropBlankTail(SubSeq(q, 1, Len(q) - 1))
    ELSE q

\* stdout.strip().split('\n'): blank lines at both ends go, and so do the
\* blanks the first remaining line starts with.
StripLines(stdout) ==
    LET q == DropBlankTail(DropBlankHead(stdout))
    IN  IF q = << >> THEN << >>
        ELSE <<Line(q[1].text)>> \o Tail(q)

\* Line 349: the lines that may be the host name.
HostLines(stdout) ==
    SelectSeq(StripLines(stdout),
              LAMBDA l : /\ ~(l.text = "" /\ ~l.indent)
                         /\ ~StartsWithProxy(l.text)
                         /\ ~l.indent
                         /\ ~HasColon(l.text))

\* Line 350: hostname_output
HostnameOutput(stdout) ==
    IF HostLines(stdout) = << >> THEN ""
    ELSE HostLines(stdout)[Len(HostLines(stdout))].text

\* Line 352
BrokeredProbeSucceeded(res) ==
    \/ res.rc = 0
    \/ HostnameOutput(res.stdout) /= "" /\ HasSandbox(HostnameOutput(res.stdout))

ProbeOutputs ==
    {<< >>,
     <<Line("claude-sandbox-0")>>,
     <<Line("Proxy listening information:"), Indented("Address: 127.0.0.1"),
       Line("claude-sandbox-0")>>,
     <<Line("Agent-Sandbox")>>,
     <<Line("devbox")>>,
     <<Line("claude-sandbox-0"), Line("devbox")>>,
     <<Line("claude-sandbox-0"), Line("")>>,
     <<Line("claude-sandbox-0"), Indented("devbox")>>,
     <<Indented("claude-sandbox-0")>>,
     <<Line("sandbox: ready")>>}

ProbeResponses ==
    {TimedOut} \cup {Completed(rc, out) : rc \in {0, 1, 255}, out \in ProbeOutputs}

\* Lines 341-359: boundary connect -exec ssh ... hostname, timeout=60.  On a
\* timeout or a failed probe the with block is left and the directory gone.
Probe ==
    /\ pc = "probe"
    /\ cmds' = Append(cmds, "connect-exec")
    /\ \E resp \in ProbeResponses :
          /\ timeout_pending' = (timeout_pending \/ resp.kind = "timeout")
          /\ result' = resp
          /\ IF resp.kind = "timeout"
             THEN probe' = "timeout" /\ files' = NoFiles /\ pc' = "dynlookup"
             ELSE IF BrokeredProbeSucceeded(resp)
             THEN probe' = "succeeded" /\ files' = files /\ pc' = "probe_success"
             ELSE probe' = "failed" /\ files' = NoFiles /\ pc' = "dynlookup"
    /\ phases' = phases \cup {"probe"}
    /\ UNCHANGED <<flow, exit_code, verdict, browserOpen, shots, browserVars, authVars,
                   ssh_target_id, tokenVars, creds_file, targets,
                   environ, secret, fields, broker, lookupVars>>

\* Variant: the key directory outlives the with block of line 307.
ProbeSuccessKeepsDir ==
    /\ pc = "probe_success"
    /\ \/ shots' = shots \cup {Shot("final-success")} /\ Return("True")
       \/ pc' = "dynlookup" /\ UNCHANGED <<shots, verdict>>
    /\ phases' = phases \cup {"probe"}
    /\ UNCHANGED <<flow, exit_code, browserOpen, browserVars, authVars,
                   ssh_target_id, tokenVars, creds_file, targets, files,
                   environ, cmds, secret, fields, broker, result, probe, lookupVars>>
    /\ TrackTimeout(pc' /= "finally")

\* Lines 353-355: screenshot, return True.  A screenshot that raises is
\* caught by line 370 (the inner try is still open) and the flow goes on.
ProbeSuccess ==
    /\ pc = "probe_success"
    /\ files' = NoFiles
    /\ \/ shots' = shots \cup {Shot("final-success")} /\ Return("True")
       \/ pc' = "dynlookup" /\ UNCHANGED <<shots, verdict>>
    /\ phases' = phases \cup {"probe"}
    /\ UNCHANGED <<flow, exit_code, browserOpen, browserVars, authVars,
                   ssh_target_id, tokenVars, creds_file, targets,
                   environ, cmds, secret, fields, broker, result, probe, lookupVars>>
    /\ TrackTimeout(pc' /= "finally")

(***************************************************************************)
(* Second step 3.3: target lookup through the CLI (lines 375-415)          *)
(***************************************************************************)
TARGET_SCOPE == "DevOps"
TARGET_PROJECT == "Agent-Sandbox"

Item(name, id) == JMap(("name" :> JStr(name)) @@ ("id" :> JStr(id)))
Listing(items) == TextJson(JMap("items" :> JList(items)))

ListResponses(hit, miss) ==
    {TimedOut, Completed(1, TextRaw("")), Completed(0, TextRaw("not json")),
     Completed(0, TextJson(EmptyMap)),
     Completed(0, Listing(<< >>)),
     Completed(0, Listing(<<miss>>)),
     Completed(0, Listing(<<miss, hit>>)),
     Completed(0, Listing(<<JMap("name" :> hit.m["name"])>>))}

\* x.get('name') == name
NameIs(x, name) == PyGet(x, "name", None) = JStr(name)

\* 'ssh' in t.get('name', '').lower()
NameHasSsh(x) == PyGet(x, "name", JStr("")) \in {JStr("claude-ssh"), JStr("SSH-box")}

\* The filter of the generator of line 391 ("scope"), 401 ("project") or
\* 411 ("ssh").
Matches(x, what) ==
    CASE what = "scope" -> NameIs(x, TARGET_SCOPE)
      [] what = "project" -> NameIs(x, TARGET_PROJECT)
      [] what = "ssh" -> NameHasSsh(x)

\* next((x['id'] for x in doc.get('items', []) if match(x)), None);
\* Raised on a document without get and on a matching item without 'id'.
FirstId(items, what) ==
    LET stops == {i \in 1..Len(items) : items[i].t /= "map" \/ Matches(items[i], what)}
        first == CHOOSE i \in stops : \A j \in stops : i <= j
    IN  IF stops = {} THEN None
        ELSE IF items[first].t /= "map" THEN Raised
        ELSE IF "id" \in DOMAIN items[first].m THEN items[first].m["id"]
        ELSE Raised

\* The id looked up in the answer of a list call: None when the call did
\* not exit with 0 or nothing matches, Raised when line 414 catches.
LookupId(resp, what) ==
    IF resp.kind = "timeout" THEN Raised
    ELSE IF resp.rc /= 0 THEN None
    ELSE LET items == PyGet(JsonLoads(resp.stdout), "items", JList(<< >>))
         IN  IF items.t /= "list" THEN Raised ELSE FirstId(items.l, what)

\* secret, the fields and result are not read after the block of step 3.3:
\* the model forgets them.
ForgetSecret == secret' = None /\ fields' = NoFields /\ result' = NoResult

\* Line 376: a target id is there, or no token: no lookup.
DynSkip ==
    /\ pc = "dynlookup"
    /\ ~(Truthy(auth_token) /\ ~Truthy(ssh_target_id))
    /\ ForgetSecret
    /\ pc' = "direct"
    /\ UNCHANGED <<flow, exit_code, timeout_pending, phases, verdict, browserOpen, shots, browserVars, authVars,
                   ssh_target_id, tokenVars, creds_file, targets,
                   environ, cmds, files, broker, probe, lookupVars>>

\* Variant: the projects are listed whatever the scopes call found.
DynScopesAlwaysDescends ==
    /\ pc = "dynlookup"
    /\ Truthy(auth_token) /\ ~Truthy(ssh_target_id)
    /\ ForgetSecret
    /\ environ' = auth_token
    /\ cmds' = Append(cmds, "scopes-list")
    /\ \E resp \in ListResponses(Item(TARGET_SCOPE, "o_1"), Item("Other", "o_2")) :
          LET id == LookupId(resp, "scope")
          IN  /\ timeout_pending' = (timeout_pending \/ resp.kind = "timeout")
              /\ org_id' = IF id.t = "raised" THEN org_id ELSE id
              /\ pc' = IF id.t /= "raised" THEN "dyn_projects" ELSE "direct"
    /\ phases' = phases \cup {"lookup"}
    /\ UNCHANGED <<flow, exit_code, verdict, browserOpen, shots, browserVars, authVars,
                   ssh_target_id, tokenVars, creds_file, targets,
                   files, broker, probe, project_id, direct>>

\* Lines 378-391: boundary scopes list, the scope named TARGET_SCOPE.
DynScopes ==
    /\ pc = "dynlookup"
    /\ Truthy(auth_token) /\ ~Truthy(ssh_target_id)
    /\ ForgetSecret
    /\ environ' = auth_token
    /\ cmds' = Append(cmds, "scopes-list")
    /\ \E resp \in ListResponses(Item(TARGET_SCOPE, "o_1"), Item("Other", "o_2")) :
          LET id == LookupId(resp, "scope")
          IN  /\ timeout_pending' = (timeout_pending \/ resp.kind = "timeout")
              /\ org_id' = IF id.t = "raised" THEN org_id ELSE id
              /\ pc' = IF id.t /= "raised" /\ Truthy(id) THEN "dyn_projects" ELSE "direct"
    /\ phases' = phases \cup {"lookup"}
    /\ UNCHANGED <<flow, exit_code, verdict, browserOpen, shots, browserVars, authVars,
                   ssh_target_id, tokenVars, creds_file, targets,
                   files, broker, probe, project_id, direct>>

\* Lines 393-401: boundary scopes list -scope-id=<org_id>.
DynProjects ==
    /\ pc = "dyn_projects"
    /\ cmds' = Append(cmds, "projects-list")
    /\ \E resp \in ListResponses(Item(TARGET_PROJECT, "p_1"), Item("Other", "p_2")) :
          LET id == LookupId(resp, "project")
          IN  /\ timeout_pending' = (timeout_pending \/ resp.kind = "timeout")
              /\ project_id' = IF id.t = "raised" \/ (resp.kind = "exit" /\ resp.rc /= 0)
                               THEN project_id ELSE id
              /\ pc' = IF id.t /= "raised" /\ Truthy(id) THEN "dyn_targets" ELSE "direct"
    /\ phases' = phases \cup {"lookup"}
    /\ UNCHANGED <<flow, exit_code, verdict, browserOpen, shots, browserVars, authVars,
                   ssh_target_id, tokenVars, creds_file, targets,
                   environ, secret, fields, files, broker, result, probe, org_id, direct>>

\* Lines 403-413: boundary targets list -scope-id=<project_id>.
DynTargets ==
    /\ pc = "dyn_targets"
    /\ cmds' = Append(cmds, "targets-list")
    /\ \E resp \in ListResponses(Item("claude-ssh", "t_dyn"), Item("web", "t_web"))
                     \cup {Completed(0, Listing(<<Item("SSH-box", "t_box")>>))} :
          LET id == LookupId(resp, "ssh")
          IN  /\ timeout_pending' = (timeout_pending \/ resp.kind = "timeout")
              /\ ssh_target_id' = IF id.t = "raised" \/ (resp.kind = "exit" /\ resp.rc /= 0)
                                  THEN ssh_target_id ELSE id
    /\ pc' = "direct"
    /\ phases' = phases \cup {"lookup"}
    /\ UNCHANGED <<flow, exit_code, verdict, browserOpen, shots, browserVars, authVars,
                   tokenVars, creds_file, targets,
                   environ, secret, fields, files, broker, result, probe, lookupVars>>

(***************************************************************************)
(* Second step 3.4: boundary connect ssh (lines 417-450)                   *)
(***************************************************************************)
DirectOutputs ==
    {<< >>, <<Line("SSH_OIDC_SUCCESS")>>, <<Line("devbox")>>,
     <<Line("Proxy listening information:"), Line("SSH_OIDC_SUCCESS")>>}

DirectResponses ==
    {TimedOut} \cup {Completed(rc, out) : rc \in {0, 1}, out \in DirectOutputs}

\* Variant of DirectProbeSucceeded that, like line 352, also takes an exit
\* status of zero for a success.
DirectProbeExitOrSentinel(res) ==
    \/ res.rc = 0
    \/ \E i \in 1..Len(res.stdout) : HasSentinel(res.stdout[i].text)

\* Line 440: 'SSH_OIDC_SUCCESS' in result.stdout
DirectProbeSucceeded(res) ==
    \E i \in 1..Len(res.stdout) : HasSentinel(res.stdout[i].text)

\* Line 418: no token or no target id: no probe.
DirectSkip ==
    /\ pc = "direct"
    /\ ~(Truthy(auth_token) /\ Truthy(ssh_target_id))
    /\ pc' = "connect_button"
    /\ UNCHANGED <<flow, exit_code, timeout_pending, phases, verdict, browserOpen, shots, browserVars, authVars, sshVars>>

\* Variant: subprocess.TimeoutExpired is not caught by line 447 and reaches
\* the handler of line 474.
DirectTimeoutUncaught ==
    /\ pc = "direct"
    /\ Truthy(auth_token) /\ Truthy(ssh_target_id)
    /\ environ' = auth_token
    /\ cmds' = Append(cmds, "connect-ssh")
    /\ \E resp \in DirectResponses :
          /\ timeout_pending' = (timeout_pending \/ resp.kind = "timeout")
          /\ result' = resp
          /\ direct' = IF resp.kind = "timeout" THEN "timeout"
                       ELSE IF DirectProbeSucceeded(resp) THEN "succeeded" ELSE "failed"
          /\ pc' = IF resp.kind = "timeout" THEN "except_error"
                   ELSE IF DirectProbeSucceeded(resp)
                   THEN "direct_success" ELSE "connect_button"
    /\ phases' = phases \cup {"direct"}
    /\ UNCHANGED <<flow, exit_code, verdict, browserOpen, shots, browserVars, authVars,
                   ssh_target_id, tokenVars, creds_file, targets,
                   secret, fields, files, broker, probe, org_id, project_id>>

\* Lines 419-450: the probe, timeout=30.
Direct ==
    /\ pc = "direct"
    /\ Truthy(auth_token) /\ Truthy(ssh_target_id)
    /\ environ' = auth_token
    /\ cmds' = Append(cmds, "connect-ssh")
    /\ \E resp \in DirectResponses :
          /\ timeout_pending' = (timeout_pending \/ resp.kind = "timeout")
          /\ result' = resp
          /\ direct' = IF resp.kind = "timeout" THEN "timeout"
                       ELSE IF DirectProbeSucceeded(resp) THEN "succeeded" ELSE "failed"
          /\ pc' = IF resp.kind = "exit" /\ DirectProbeSucceeded(resp)
                   THEN "direct_success" ELSE "connect_button"
    /\ phases' = phases \cup {"direct"}
    /\ UNCHANGED <<flow, exit_code, verdict, browserOpen, shots, browserVars, authVars,
                   ssh_target_id, tokenVars, creds_file, targets,
                   secret, fields, files, broker, probe, org_id, project_id>>

\* Lines 441-443: screenshot, return True; line 449 catches a screenshot
\* that raises.
DirectSuccess ==
    /\ pc = "direct_success"
    /\ \/ shots' = shots \cup {Shot("final-success")} /\ Return("True")
       \/ pc' = "connect_button" /\ UNCHANGED <<shots, verdict>>
    /\ phases' = phases \cup {"direct"}
    /\ UNCHANGED <<flow, exit_code, browserOpen, browserVars, authVars, sshVars>>
    /\ TrackTimeout(pc' /= "finally")

(***************************************************************************)
(* Step 3.5 and the final verdict (lines 452-467)                          *)
(***************************************************************************)
\* Lines 454-458: a visible Connect button is a pass.  result is not read
\* after line 446: the model forgets it.
ConnectButtonVisible ==
    /\ pc = "connect_button"
    /\ result' = NoResult
    /\ \/ shots' = shots \cup {Shot("connect")} /\ Return("True")
       \/ Throw("timeout") /\ UNCHANGED <<shots, verdict>>
    /\ phases' = phases \cup {"connect_button"}
    /\ UNCHANGED <<flow, exit_code, browserOpen, browserVars, authVars,
                   ssh_target_id, tokenVars, creds_file, targets,
                   environ, cmds, secret, fields, files, broker, probe, lookupVars>>
    /\ TrackTimeout(pc' = "except_timeout")

ConnectButtonAbsent ==
    /\ pc = "connect_button"
    /\ result' = NoResult
    /\ pc' = "final"
    /\ phases' = phases \cup {"connect_button"}
    /\ UNCHANGED <<flow, exit_code, timeout_pending, verdict, browserOpen, shots, browserVars, authVars,
                   ssh_target_id, tokenVars, creds_file, targets,
                   environ, cmds, secret, fields, files, broker, probe, lookupVars>>

\* Variant: a broker or probe failure turns the final verdict into a fail.
FinalVerdictStrict ==
    /\ pc = "final"
    /\ \/ /\ shots' = shots \cup {Shot("final")}
          /\ Return(IF Truthy(auth_token) /\ broker \in {"none", "credentials"}
                       /\ direct \in {"none", "succeeded"}
                    THEN "True" ELSE "False")
       \/ Throw("timeout") /\ UNCHANGED <<shots, verdict>>
    /\ phases' = phases \cup {"final"}
    /\ UNCHANGED <<flow, exit_code, browserOpen, browserVars, authVars, sshVars>>
    /\ TrackTimeout(pc' = "except_timeout")

\* Lines 461-467: the last screenshot, then the token decides.
FinalVerdict ==
    /\ pc = "final"
    /\ \/ /\ shots' = shots \cup {Shot("final")}
          /\ Return(IF Truthy(auth_token) THEN "True" ELSE "False")
       \/ Throw("timeout") /\ UNCHANGED <<shots, verdict>>
    /\ phases' = phases \cup {"final"}
    /\ UNCHANGED <<flow, exit_code, browserOpen, browserVars, authVars, sshVars>>
    /\ TrackTimeout(pc' = "except_timeout")

(***************************************************************************)
(* __main__ (test-ssh-oidc-browser.py 497-504, test-oidc-browser.py        *)
(* 211-218).  The --help branch of line 490 ends the process before a run  *)
(* starts and is not part of the model.                                    *)
(***************************************************************************)
\* Variant: only a returned False gives status 1.
ExitZeroUnlessFalse ==
    /\ pc = "done"
    /\ exit_code' = IF verdict = "False" THEN 1 ELSE 0
    /\ pc' = "exited"
    /\ UNCHANGED <<flow, timeout_pending, phases, verdict, browserOpen, shots,
                   browserVars, authVars, sshVars>>

\* sys.exit(0 if success else 1); an exception that left the function ends
\* the interpreter with the traceback and status 1.
Exit ==
    /\ pc = "done"
    /\ exit_code' = IF verdict = "True" THEN 0 ELSE 1
    /\ pc' = "exited"
    /\ UNCHANGED <<flow, timeout_pending, phases, verdict, browserOpen, shots,
                   browserVars, authVars, sshVars>>

(***************************************************************************)
(* The specification                                                       *)
(***************************************************************************)
Next ==
    \/ Navigate \/ SelectScope \/ SelectAuthMethod \/ SignIn \/ PopupLoad
    \/ InspectRecognized \/ InspectWrongOidc \/ InspectWrongSsh
    \/ Credentials \/ Callback
    \/ OidcClassifyError \/ OidcClassifyPending \/ OidcRewait \/ OidcReclassify
    \/ OidcClassifySuccess \/ OidcClassifyPage
    \/ SshClassifyError \/ SshClassifyContinue
    \/ Project \/ TargetsLink \/ SshTargetVisible \/ SshTargetAbsent
    \/ ExtractToken \/ Registry
    \/ AuthorizeSkip \/ AuthorizeEnv \/ AuthorizeNoTarget \/ AuthorizeRun
    \/ MkTemp \/ WriteKey \/ ChmodKey \/ WriteCert \/ ChmodCert
    \/ Probe \/ ProbeSuccess
    \/ DynSkip \/ DynScopes \/ DynProjects \/ DynTargets
    \/ DirectSkip \/ Direct \/ DirectSuccess
    \/ ConnectButtonVisible \/ ConnectButtonAbsent \/ FinalVerdict
    \/ ExceptTimeout \/ ExceptError \/ Finally \/ Exit

Spec == Init /\ [][Next]_vars

(***************************************************************************)
(* Properties                                                              *)
(***************************************************************************)
\* The function returned True (the process exits with 0).
Passed == verdict = "True"

\* The function returned False or an exception left it (exit code not 0).
Failed == verdict \in {"False", "raised"}

\* One of the two except clauses ran.
Handled == phases \cap {"except_timeout", "except_error"} /= {}

\* The steps of Phases 2 and 3 of test_oidc_ssh_flow.
PhaseTwoOn ==
    {"navigation", "extract", "resolve", "broker", "materialize", "probe",
     "lookup", "direct", "connect_button", "final"}

\* The steps that come after the classification, and after the pop-up
\* inspection.
AfterClassify == PhaseTwoOn \cup {"rewait", "reclassify"}
AfterInspect == AfterClassify \cup {"credentials", "callback", "classify"}

\* The elements of a sequence.
Range(q) == {q[i] : i \in DOMAIN q}

\* The ways the authorize-session block ends without credentials.
BrokerFailures == {"timeout", "nonzero", "error", "no_credentials", "no_private_key"}

\* C1: when authentication was classified as successful, a token was
\* extracted and a target id was resolved, and then the authorize-session
\* call or the probe with the brokered key failed (timeout, non-zero exit,
\* exception, no credentials, no private key, failed probe), the test's
\* verdict is fail.  test_oidc_ssh_flow does not keep this: after such a
\* failure it falls through to line 462, where the token alone gives True
\* (stated here for the runs in which neither the probe of step 3.4
\* succeeded nor a Connect button was seen).
C1_BrokerFailureFails ==
    (/\ pc = "done" /\ flow = "ssh"
     /\ authState = "authenticated"
     /\ Truthy(auth_token) /\ Truthy(ssh_target_id)
     /\ Len(cmds) > 0 /\ cmds[1] = "authorize-session"
     /\ (broker \in BrokerFailures \/ probe \in {"failed", "timeout"})
     /\ direct /= "succeeded" /\ Shot("connect") \notin shots)
        => Failed

\* C2: a test returns True only when the post-callback page was classified
\* as authenticated.  test_oidc_flow keeps this; test_oidc_ssh_flow returns
\* True also after an unrecognised pop-up or an unclear classification.
C2_PassNeedsAuthenticated ==
    (pc = "done" /\ Passed) => authState = "authenticated"

\* The page's URL, as first read after the callback, holds an error marker.
\* (After a re-wait final_url is the URL read again; test_oidc_ssh_flow does
\* not keep the URL of a page it did not reject.)
ErrorSeen ==
    /\ "classify" \in phases
    /\ rewaits = 0
    /\ Contains("error", Lower(final_url))

C4_WrongPopupFails ==
    ("inspect" \in phases /\ "classify" \notin phases /\ ~IsLoginPage(popup_url))
        => /\ ~Passed
           /\ phases \cap AfterInspect = {}

\* C5: a post-callback page with neither an error marker nor a success
\* marker (classified as unclear) ends in a fail.  test_oidc_ssh_flow only
\* prints a warning and lets the later steps decide.
C5_UnclearFails ==
    (pc = "done" /\ authState = "unclear") => Failed

\* C6: when authentication was classified as successful and no target id
\* could be resolved (registry, UI, CLI lookup), the test passes on the
\* authentication alone, provided no exception or timeout ended it.
\* test_oidc_ssh_flow passes only with a token or a Connect button.
C6_NoTargetPasses ==
    (/\ pc = "done" /\ flow = "ssh"
     /\ authState = "authenticated"
     /\ ~Truthy(ssh_target_id)
     /\ ~Handled /\ verdict /= "raised")
        => Passed

FieldsOf(M) ==
    [t |-> "fields",
     private_key |-> IF "private_key" \in DOMAIN M.m THEN M.m["private_key"] ELSE JStr(""),
     certificate |-> IF "certificate" \in DOMAIN M.m THEN M.m["certificate"] ELSE JStr(""),
     username |-> IF "username" \in DOMAIN M.m THEN M.m["username"] ELSE JStr("node")]

\* Every field map in every envelope.
Enveloped == {[secret |-> Wrap(sh, M), M |-> M] : sh \in Shapes, M \in FieldMaps}

\* C8: the fields read do not depend on the envelope: for every field map M
\* and each of the shapes {decoded: {data: M}}, {decoded: M},
\* {data: {data: M}}, {data: M} and M, a secret of that shape gives the
\* private_key, certificate and username that M itself gives.
C8_ShapesAgree ==
    secret.t = "map" =>
        \A w \in Enveloped :
            secret = w.secret
                => /\ fields = FieldsOf(w.M)
                   /\ fields = ReadFields(w.M)

\* C8 witness: {decoded: {data: {private_key: KEY, username: alice}}} gave
\* the key KEY, no certificate and the user alice.
C8_Witness ==
    /\ secret = Wrap("decoded.data", KeyMap)
    /\ fields = [t |-> "fields", private_key |-> JStr("KEY"),
                 certificate |-> JStr(""), username |-> JStr("alice")]

\* page.evaluate returned and the parse of lines 229-239 is the last thing
\* that ran.
JustExtracted ==
    /\ "extract" \in phases /\ "resolve" \notin phases
    /\ storage /= NoStorage

\* The stored text is a JSON document with an entry at
\* authenticated.attributes.token.
HasTokenAtPath(v) ==
    /\ v.kind = "json"
    /\ v.doc.t = "map" /\ "authenticated" \in DOMAIN v.doc.m
    /\ v.doc.m["authenticated"].t = "map"
    /\ "attributes" \in DOMAIN v.doc.m["authenticated"].m
    /\ v.doc.m["authenticated"].m["attributes"].t = "map"
    /\ "token" \in DOMAIN v.doc.m["authenticated"].m["attributes"].m

\* C9: the token extraction of test_oidc_ssh_flow never raises: whatever the
\* storage held, the next statement is the registry lookup of step 3.2 and
\* no except clause ran.  auth_token is still None when all three storage
\* locations are empty, when the first non-empty value is no JSON, and when
\* it is JSON (of any type) without an entry at
\* authenticated.attributes.token.
C9_ExtractionNeverRaises ==
    JustExtracted
        => /\ pc = "registry" /\ verdict = "none" /\ ~Handled
           /\ auth_token.t /= "raised"
           /\ token = EvaluateToken(storage)
           /\ (/\ ~NonEmptyText(storage.session)
               /\ ~NonEmptyText(storage.boundary)
               /\ ~NonEmptyText(storage.cookie)) => auth_token = None
           /\ token.kind = "text" => auth_token = None
           /\ (token.kind = "json" /\ ~HasTokenAtPath(token)) => auth_token = None

\* C9 witness: the session entry is a JSON document whose "authenticated"
\* is a string; the flow is at step 3.2 without a token.
C9_Witness ==
    /\ pc = "registry"
    /\ storage.session = TextJson(JMap("authenticated" :> JStr("x")))
    /\ token = storage.session
    /\ auth_token = None

\* The texts a storage location may hold that are no JSON documents.
RawTexts == {"raw", "at_raw", "k=v"}

\* C10 (as stated): when the first non-empty storage value is no JSON, the
\* raw value itself becomes the token.  The except clause of line 238 only
\* prints a warning.
C10_RawFallback ==
    (JustExtracted /\ token.kind = "text" /\ token.text /= "")
        => auth_token = JStr(token.text)

\* C10 (amended): when the first non-empty storage value is no JSON, there
\* is no fall-back to the raw value: auth_token stays None, and at no time
\* is a raw storage text the token or the BOUNDARY_TOKEN of a command.
C10_NoRawFallback ==
    /\ (JustExtracted /\ token.kind = "text" /\ token.text /= "")
          => auth_token = None
    /\ auth_token.t = "str" => auth_token.s \notin RawTexts
    /\ environ.t = "str" => environ.s \notin RawTexts

\* C10 witness: the session entry is empty, the boundary-token entry is a
\* text that is no JSON; the flow is at step 3.2 without a token.
C10_Witness ==
    /\ pc = "registry"
    /\ storage.session = NoItem
    /\ token = TextRaw("at_raw")
    /\ auth_token = None

\* The words that follow the first '<name>:' of a line.
WordsAfterMarker(line, name) ==
    LET at == CHOOSE i \in 1..(Len(line) - 1) :
                  /\ line[i] = name /\ line[i + 1] = ":"
                  /\ \A j \in 1..(i - 1) : ~(line[j] = name /\ line[j + 1] = ":")
    IN  SelectSeq(SubSeq(line, at + 2, Len(line)), LAMBDA w : w /= " ")

\* C11: for every line of the registry file with the marker '<name>-ssh:'
\* and a word after it, get_target_ids() records for <name> the first word
\* that follows the marker, whatever else follows.  The code takes the first
\* word after the last colon of the line (line.split(':')[-1]), and the
\* IndexError of a line without such a word ends the loop.
C11_FirstWordAfterMarker ==
    (pc = "authorize" /\ creds_file.state = "read")
        => \A i \in 1..Len(creds_file.lines), name \in {"claude", "gemini"} :
              LET line == creds_file.lines[i]
                  marker == IF name = "claude" THEN "claude-ssh" ELSE "gemini-ssh"
              IN  (HasMarker(line, marker) /\ WordsAfterMarker(line, marker) /= << >>)
                      => PyGet(targets, name, None) = JStr(WordsAfterMarker(line, marker)[1])

\* The text of the last output line that is neither empty nor indented
\* ("" when there is none).
LastPlainLine(stdout) ==
    LET plain == SelectSeq(stdout, LAMBDA l : l.text /= "" /\ ~l.indent)
    IN  IF plain = << >> THEN "" ELSE plain[Len(plain)].text

\* result is what the probe with the brokered key gave.
BrokeredProbeDone == pc \in {"probe_success", "dynlookup"} /\ result.kind = "exit"

\* result is what `boundary connect ssh` gave.
DirectProbeDone == pc \in {"direct_success", "connect_button"} /\ result.kind = "exit"

\* C12 (as stated): each of the two probes counts as succeeded exactly when
\* the exit status is zero or the last non-empty, non-indented output line
\* holds the expected text ('sandbox' for the brokered probe,
\* 'SSH_OIDC_SUCCESS' for the direct one).  The direct probe does not look
\* at the exit status, and the brokered probe filters more lines.
C12_EitherSignal ==
    /\ BrokeredProbeDone
          => (probe = "succeeded"
                <=> result.rc = 0 \/ HasSandbox(LastPlainLine(result.stdout)))
    /\ DirectProbeDone
          => (direct = "succeeded"
                <=> result.rc = 0 \/ HasSentinel(LastPlainLine(result.stdout)))

\* Line i of the stripped output q passes the filter of line 349.
IsCandidate(q, i) ==
    /\ q[i].text /= "" /\ ~q[i].indent
    /\ ~StartsWithProxy(q[i].text) /\ ~HasColon(q[i].text)

\* C12 (amended): the brokered probe counts as succeeded exactly when the
\* exit status is zero or the last line of the stripped output that is not
\* empty, not indented, does not start with 'Proxy' and has no colon holds
\* 'sandbox'; either signal alone suffices.  The direct probe counts as
\* succeeded exactly when some output line holds 'SSH_OIDC_SUCCESS': its
\* exit status is ignored, so a zero exit without the text is a failure and
\* a non-zero exit with it a success.
C12_ProbeSignals ==
    /\ BrokeredProbeDone
          => LET q == StripLines(result.stdout)
             IN  probe = "succeeded"
                   <=> \/ result.rc = 0
                       \/ \E i \in 1..Len(q) :
                             /\ IsCandidate(q, i) /\ HasSandbox(q[i].text)
                             /\ \A j \in (i + 1)..Len(q) : ~IsCandidate(q, j)
    /\ DirectProbeDone
          => /\ direct = "succeeded"
                   <=> ~(\A i \in 1..Len(result.stdout) :
                            result.stdout[i].text /= "SSH_OIDC_SUCCESS")
             /\ (result.rc = 0 /\ result.stdout = <<Line("devbox")>>)
                   => direct = "failed"
             /\ (result.rc /= 0 /\ result.stdout = <<Line("SSH_OIDC_SUCCESS")>>)
                   => direct = "succeeded"

\* C12 witness: `boundary connect ssh` exited with 0 and printed a host name
\* but not the expected text; the probe counted as failed.
C12_Witness ==
    /\ pc = "connect_button"
    /\ result = Completed(0, <<Line("devbox")>>)
    /\ direct = "failed"

\* The steps between the creation of the temporary directory (line 307) and
\* the end of its with block.
KeyDirSteps == {"write_key", "chmod_key", "write_cert", "chmod_cert", "probe", "probe_success"}

\* C13: the temporary key directory exists only from the materialization of
\* brokered credentials to the end of the probe: it is there only after the
\* broker answered with credentials and only at the steps inside the with
\* block, the key and certificate files exist only inside it, once the
\* connect -exec command has run it survives only up to the return statement
\* of the successful probe, and it is gone whenever the function is in a
\* handler, in its finally clause or finished, whatever the probe did.
C13_KeyDirScoped ==
    /\ files.dir => pc \in KeyDirSteps /\ broker = "credentials"
    /\ (files.key.kind = "file" \/ files.cert.kind = "file") => files.dir
    /\ (files.dir /\ \E i \in 1..Len(cmds) : cmds[i] = "connect-exec") => pc = "probe_success"
    /\ pc \in {"except_timeout", "except_error", "finally", "done", "exited"} => files = NoFiles

\* A run that wrote the key, timed out in the brokered probe and finished.
C13_Witness ==
    /\ pc = "done"
    /\ "materialize" \in phases
    /\ probe = "timeout"
    /\ files = NoFiles

\* C14: the browser is closed whenever the function has been left, on a
\* pass, on a fail and when an exception raised inside a handler escapes;
\* a verdict is only ever produced on the way through the finally clause.
C14_BrowserClosedOnExit ==
    /\ pc \in {"done", "exited"} => ~browserOpen
    /\ verdict /= "none" <=> pc \in {"finally", "done", "exited"}
    /\ browserOpen <=> pc \notin {"done", "exited"}

\* The screenshot of the timeout handler raised and the exception escaped.
C14_Witness == pc = "done" /\ verdict = "raised" /\ ~browserOpen

\* C15: a run ends with exactly one outcome and the exit status mirrors it:
\* the process has exited only after the function was left with True, with
\* False or with an exception, the status is 0 exactly when it returned
\* True and 1 when it returned False or an exception escaped, and no status
\* exists before the exit.
C15_ExitCodeMirrorsVerdict ==
    /\ pc = "exited" => /\ verdict \in {"True", "False", "raised"}
                        /\ exit_code \in {0, 1}
                        /\ (exit_code = 0 <=> verdict = "True")
                        /\ (Failed => exit_code = 1)
    /\ pc /= "exited" => exit_code = -1

\* The process has exited after an exception escaped the timeout handler.
C15_Witness == pc = "exited" /\ verdict = "raised" /\ exit_code = 1

\* The number of times a command was run.
Count(cmd) == Cardinality({i \in 1..Len(cmds) : cmds[i] = cmd})

\* C16: no external command is run twice, and once the brokered probe has
\* timed out or failed no further remote-connect attempt is made, so that
\* at most one remote-connect command is run in a run.
C16_NoSecondAttempt ==
    /\ \A i \in 1..Len(cmds) : Count(cmds[i]) <= 1
    /\ probe \in {"timeout", "failed"} => Count("connect-ssh") = 0
    /\ Count("connect-exec") + Count("connect-ssh") <= 1

\* C17: when the authorization command exits with a non-zero status or its
\* answer cannot be read, there are no credentials: no key directory or
\* file exists, the brokered probe is never run, and right after the
\* command the flow is at the dynamic lookup or at the direct probe with no
\* verdict and no handler entered.
C17_BrokerFailureNotFatal ==
    broker \in {"nonzero", "error"}
        => /\ files = NoFiles
           /\ Count("connect-exec") = 0
           /\ probe = "none"
           /\ pc \notin KeyDirSteps \cup {"mktemp", "authorize", "authorize_run"}
           /\ (Len(cmds) > 0 /\ cmds[Len(cmds)] = "authorize-session")
                 => pc \in {"dynlookup", "direct"} /\ verdict = "none" /\ ~Handled

\* The secret of the answer was a string: its fields could not be read.
C17_Witness ==
    /\ pc = "dynlookup"
    /\ broker = "error"
    /\ secret.t = "str"
    /\ cmds = <<"authorize-session">>

\* C18: a probe that timed out is a failed probe and nothing more: right
\* after the timeout the flow is at its next step (the dynamic lookup after
\* the brokered probe, the Connect button after the direct one) with no
\* verdict, no handler entered and no key directory, the probe is recorded
\* as timed out and not as succeeded, and a finished run in which the
\* direct probe did not succeed has no success screenshot.
C18_ProbeTimeoutIsFailure ==
    /\ result.kind = "timeout"
         => /\ pc \in {"dynlookup", "connect_button"}
            /\ pc = "dynlookup" => probe = "timeout"
            /\ pc = "connect_button" => direct = "timeout"
            /\ verdict = "none"
            /\ ~Handled
            /\ files = NoFiles
    /\ (probe = "timeout" /\ direct /= "succeeded") => Shot("final-success") \notin shots
    /\ (probe \in {"none", "failed"} /\ direct = "timeout") => Shot("final-success") \notin shots

\* Both probes timed out, one after the other.
C18_Witness ==
    /\ pc = "connect_button"
    /\ result.kind = "timeout"
    /\ probe = "timeout"
    /\ direct = "timeout"

\* C19: no timeout reaches a failure without a screenshot attempt after it:
\* whenever the function has returned False or an exception has escaped
\* it, page.screenshot has been called since the last timeout of a
\* navigation, a wait, the pop-up wait or an external command; and every
\* entry into the timeout handler is such a timeout still waiting for its
\* screenshot.
C19_ShotAfterTimeout ==
    /\ Failed => ~timeout_pending
    /\ pc = "except_timeout" => timeout_pending

\* The direct probe timed out, then the wait on the Connect button did: the
\* handler took its screenshot and the run failed.
C19_Witness ==
    /\ pc = "done"
    /\ verdict = "False"
    /\ direct = "timeout"
    /\ Shot("timeout") \in shots
    /\ ~timeout_pending

\* C20: the private-key file has mode 0600 in every state in which it
\* exists, and so when the connect -exec command is started; the
\* certificate file exists only for a non-empty certificate and has mode
\* 0644 when the command is started.
C20_KeyModeAlways0600 ==
    /\ files.key.kind = "file" => files.key.mode = "0600"
    /\ files.cert.kind = "file" => Truthy(fields.certificate)
    /\ (files.cert.kind = "file" /\ pc \in {"probe", "probe_success"})
          => files.cert.mode = "0644"

\* The commands of the dynamic lookup and the two remote-connect commands.
ListCmds == {"scopes-list", "projects-list", "targets-list"}
ConnectCmds == {"connect-exec", "connect-ssh"}

\* C21: the stages run in the order resolution, brokering, materialization,
\* probing: no list call of the dynamic lookup comes after the
\* authorization command, and a remote-connect command is run only after
\* the key of a brokered credential was written to disk.
C21_StagesInOrder ==
    /\ \A i, j \in 1..Len(cmds) :
          (i < j /\ cmds[i] = "authorize-session") => cmds[j] \notin ListCmds
    /\ (\E i \in 1..Len(cmds) : cmds[i] \in ConnectCmds) => "materialize" \in phases

\* C22: a pending page of test_oidc_flow is waited for once and classified
\* again once: the re-wait is counted at most once and only in that flow,
\* it has happened exactly when the re-classification is due or done, the
\* re-classification is never followed by another step of the flow, and
\* when it returns its result (True exactly for the scopes marker in the
\* URL read after the wait) is the verdict of the run.
C22_OneRewait ==
    /\ rewaits \in {0, 1}
    /\ rewaits = 1 => flow = "oidc" /\ "rewait" \in phases
    /\ rewaits = 1 <=> (pc = "reclassify" \/ "reclassify" \in phases)
    /\ pc = "rewait" => rewaits = 0 /\ authState = "pending"
    /\ "reclassify" \in phases
          => /\ pc \in {"except_timeout", "finally", "done", "exited"}
             /\ (pc /= "except_timeout" /\ ~Handled)
                   => verdict = (IF ScopesMarker(final_url) THEN "True" ELSE "False")
             /\ pc \in {"done", "exited"} => (Passed \/ Failed)

\* The page was pending, the URL read after the one wait had the scopes
\* marker, and the run passed.
C22_Witness ==
    /\ pc = "done"
    /\ rewaits = 1
    /\ "reclassify" \in phases
    /\ ScopesMarker(final_url)
    /\ verdict = "True"

\* The last command run, "" when there is none.
LastCmd == IF cmds = << >> THEN "" ELSE cmds[Len(cmds)]

\* C23: the dynamic lookup lists scopes, then projects, then targets and
\* descends only on a match: the projects call directly follows the scopes
\* call and is made only with the id of the scope named TARGET_SCOPE, the
\* targets call directly follows the projects call and is made only with
\* the id of the project named TARGET_PROJECT, a target id comes out of a
\* lookup only from the targets call, and after the last list call the
\* flow goes on to the direct probe step with no verdict and no handler
\* entered.
C23_LookupDescends ==
    /\ \A i \in 1..Len(cmds) :
          /\ cmds[i] = "projects-list" => i > 1 /\ cmds[i - 1] = "scopes-list"
          /\ cmds[i] = "targets-list" => i > 1 /\ cmds[i - 1] = "projects-list"
    /\ Count("projects-list") > 0 => org_id = JStr("o_1")
    /\ Count("targets-list") > 0 => project_id = JStr("p_1")
    /\ pc = "dyn_projects" => LastCmd = "scopes-list" /\ org_id = JStr("o_1")
    /\ pc = "dyn_targets" => LastCmd = "projects-list" /\ project_id = JStr("p_1")
    /\ (LastCmd \in ListCmds /\ pc \notin {"dyn_projects", "dyn_targets"})
          => (Truthy(ssh_target_id) => LastCmd = "targets-list")
    /\ (LastCmd \in ListCmds /\ "connect_button" \notin phases)
          => /\ pc \in {"dyn_projects", "dyn_targets", "direct", "connect_button"}
             /\ verdict = "none"
             /\ ~Handled

\* The scope was found, the project was not: no targets call, no target.
C23_Witness ==
    /\ pc = "direct"
    /\ cmds = <<"scopes-list", "projects-list">>
    /\ org_id = JStr("o_1")
    /\ ~Truthy(project_id)
    /\ ~Truthy(ssh_target_id)

\* The id the registry read at line 242 yields: gemini before claude.
StaticId == PyOr(PyGet(targets, "gemini", None), PyGet(targets, "claude", None))

\* Every id a registry file can yield; none of them is an id of the UI or
\* of the dynamic lookup.
RegistryIds == {ChooseTarget(get_target_ids(file), None) : file \in CredsFiles} \ {None}

\* C24: the static lookup is preferred.  After the registry was read an id
\* it yields is the target id, whatever the UI had shown; a target id, once
\* there after step 3.2, is never replaced, so that the brokering and both
\* probes use it; in a run with an id of the registry no list call is ever
\* made; and the scopes call is only made without any target id.
C24_StaticPreferred ==
    /\ [](/\ (pc = "authorize" /\ Truthy(StaticId)) => ssh_target_id = StaticId
          /\ ssh_target_id \in RegistryIds
                => /\ \A i \in 1..Len(cmds) : cmds[i] \notin ListCmds
                   /\ pc \notin {"dyn_projects", "dyn_targets"})
    /\ [][/\ ("resolve" \in phases /\ Truthy(ssh_target_id))
                => ssh_target_id' = ssh_target_id
          /\ (cmds' /= cmds /\ cmds'[Len(cmds')] = "scopes-list")
                => ~Truthy(ssh_target_id)]_vars

\* The target page was opened in the UI, the registry had an id, and the
\* brokered probe is about to run with the id of the registry.
C24_Witness ==
    /\ pc = "probe"
    /\ Shot("target-detail") \in shots
    /\ ssh_target_id \in RegistryIds
    /\ cmds = <<"authorize-session">>

\* v is a map with a map under key k.
HasMapAt(v, k) == v.t = "map" /\ k \in DOMAIN v.m /\ v.m[k].t = "map"

\* The first of the five shapes that a secret has by its structure:
\* (a) decoded holding a data map, (b) decoded, (c) data.data, (d) data,
\* (e) the secret itself.
FirstShape(s) ==
    IF HasMapAt(s, "decoded") /\ HasMapAt(s.m["decoded"], "data") THEN s.m["decoded"].m["data"]
    ELSE IF HasMapAt(s, "decoded") THEN s.m["decoded"]
    ELSE IF HasMapAt(s, "data") /\ HasMapAt(s.m["data"], "data") THEN s.m["data"].m["data"]
    ELSE IF HasMapAt(s, "data") THEN s.m["data"]
    ELSE s

\* C25: the fields are read from the first shape that matches by its
\* structure and from no later one, also when the matched map has no
\* private key and a later shape has one.
C25_FirstShapeWins ==
    (secret.t = "map" /\ fields.t = "fields") => fields = FieldsOf(FirstShape(secret))

\* C26: the token is never printed in full: what the flow prints of a
\* token is a beginning of it that is shorter than the token.
C26_TokenNeverLoggedInFull ==
    printed_token /= << >>
        => /\ auth_token.t = "str"
           /\ Len(printed_token) < Len(Chars(auth_token.s))
           /\ printed_token = SubSeq(Chars(auth_token.s), 1, Len(printed_token))

\* C27: no command is run without a token: once a command has been run the
\* token is a non-empty string and BOUNDARY_TOKEN holds it, a command that
\* is about to run (the authorization, the brokered probe and the list
\* calls after the first) finds it there, and a run whose extraction gave
\* no token runs no command at all.
C27_CommandsNeedToken ==
    /\ cmds /= << >> => /\ auth_token.t = "str"
                        /\ auth_token.s /= ""
                        /\ environ = auth_token
    /\ pc \in {"authorize_run", "probe", "dyn_projects", "dyn_targets"}
          => Truthy(auth_token) /\ environ = auth_token
    /\ ("extract" \in phases /\ pc /= "except_error" /\ ~Truthy(auth_token)) => cmds = << >>

\* The authorization command has run with the token in BOUNDARY_TOKEN.
C27_Witness ==
    /\ cmds = <<"authorize-session">>
    /\ auth_token = JStr(LongToken)
    /\ environ = JStr(LongToken)

\* C28: the authorization command is reached only with a target id: at the
\* call of line 260 ssh_target_id is a non-empty id.
C28_BrokerNeedsTarget == pc = "authorize_run" => Truthy(ssh_target_id)

C30_ErrorMarkerWins ==
    (flow = "oidc" /\ verdict = "True") => ~OidcErrorMarker(final_url)

====
